---- MODULE Spec2Model ----
(***************************************************************************)
(* Model of gooey's SpinGroup task engine (src/spinner/spingroup.go), the  *)
(* Spinner and Progress components it drives, the IndentedWriter and       *)
(* FrameAware output routing, and the global frame stack.                  *)
(*                                                                         *)
(* A task is identified by a ghost path: <<k>> is the k-th task added with *)
(* AddTask, Append(p, k) is the k-th subtask whose AddSubtask call was     *)
(* issued on behalf of task p (in lock-acquisition order).  The path is    *)
(* bookkeeping of the caller, never read by the modelled code.             *)
(***************************************************************************)
EXTENDS Integers, Sequences, FiniteSets, TLC

\* ---------------------------------------------------------------- bounds
MaxRoots == 2      \* AddTask calls before the run
MaxSub == 2        \* AddSubtask calls during the run
MaxWork == 4       \* tasks added plus running frames rendered, in total
MaxGo == 2         \* goroutines one task function spawns for AddSubtask

\* ------------------------------------------------------- program constants
IndentUnit == 2    \* strings.Repeat("  ", depth): 2 spaces per depth level

ErrMsgs == {"e1"}
Names == {"", "n"}
Titles == {"", "T"}
Kinds == {"spinner", "progress"}

NoPath == <<>>
NilErr == [kind |-> "nil", msg |-> "", src |-> NoPath]
NoResult == [kind |-> "none", msg |-> "", src |-> NoPath]
TaskErr(id, m) == [kind |-> "task", msg |-> m, src |-> id]
ConfigErr(m) == [kind |-> "config", msg |-> m, src |-> NoPath]
NoTask == [id |-> NoPath, name |-> "", component |-> FALSE, taskFunc |-> FALSE,
           depth |-> 0, g |-> 0]

\* ------------------------------------------------------------ path helpers
Min(a, b) == IF a < b THEN a ELSE b

IsPrefix(p, q) == Len(p) <= Len(q) /\ \A k \in 1..Len(p) : p[k] = q[k]

IsChild(p, q) == Len(q) = Len(p) + 1 /\ IsPrefix(p, q)

\* depth-first pre-order of the task tree: a parent before its subtree,
\* siblings in the order they were added
PathLess(p, q) ==
    \/ (p # q /\ IsPrefix(p, q))
    \/ \E k \in 1..Min(Len(p), Len(q)) :
          /\ \A j \in 1..(k - 1) : p[j] = q[j]
          /\ p[k] < q[k]

IndexOf(s, x) == IF \E k \in 1..Len(s) : s[k] = x
                 THEN CHOOSE k \in 1..Len(s) : s[k] = x
                 ELSE 0

\* ------------------------------------------------------------ output layer
\* A piece of content handed to a writer: pre = "cr" when it starts with
\* "\r" + ansi.ClearLine, text is the visible part ("" for none), nl tells
\* whether it ends with a newline.
Content(pre, text, nl) == [pre |-> pre, text |-> text, nl |-> nl]

Stdout == [wrapped |-> FALSE, indent |-> 0, base |-> "stdout"]

\* a writer handed to a component: the group's output, possibly wrapped
Plain(base) == [wrapped |-> FALSE, indent |-> 0, base |-> base]

NewIndentedWriter(base, depth) ==
    IF depth <= 0 THEN Plain(base)
    ELSE [wrapped |-> TRUE, indent |-> depth * IndentUnit, base |-> base]

\* internal/frame.IsFrameWriter: the type assertion w.(*frame.Frame)
IsFrameWriter(w) == ~w.wrapped /\ w.base = "frame"

\* w.(FrameReplacer): *frame.Frame and *IndentedWriter have the methods
IsFrameReplacer(w) == w.wrapped \/ w.base = "frame"

\* mutant of frameDepth: the depth of the stack, whatever the frame
frameDepthOfStack(stk, f) == Len(stk)

\* frameStack.frameDepth: 1-based position of f in the stack, 0 if absent
frameDepth(stk, f) == IndexOf(stk, f)

\* one Write call arriving at the group's original output
Entry(by, pre, text, indent, framed, fdepth, lead, nl) ==
    [by |-> by, pre |-> pre, text |-> text, indent |-> indent,
     framed |-> framed, fdepth |-> fdepth, lead |-> lead, nl |-> nl]

\* Frame.Write for content of at most one line, on sink S = [out, nn]
FrameWrite(S, stk, f, by, c, indent) ==
    [out |-> Append(S.out,
                Entry(by, c.pre, c.text, indent, TRUE, frameDepth(stk, f),
                      S.nn, c.nl)),
     nn |-> ~c.nl]

\* bytes.Buffer.Write
BufWrite(S, by, c, indent) ==
    [out |-> Append(S.out, Entry(by, c.pre, c.text, indent, FALSE, 0, FALSE, c.nl)),
     nn |-> S.nn]

BaseWrite(S, stk, w, by, c, indent) ==
    IF w.base = "frame" THEN FrameWrite(S, stk, 1, by, c, indent)
    ELSE BufWrite(S, by, c, indent)

\* IndentedWriter.Write: content that starts with "\r", contains ClearLine,
\* is a lone newline or is blank passes through without indentation
PassThrough(c) == c.pre = "cr" \/ c.text = ""

WriterWrite(S, stk, w, by, c) ==
    IF w.wrapped /\ ~PassThrough(c)
    THEN BaseWrite(S, stk, w, by, c, w.indent)
    ELSE BaseWrite(S, stk, w, by, c, 0)

\* Frame.ReplaceLine
FrameReplaceLine(S, stk, tty, f, by, text, indent) ==
    [out |-> Append(S.out,
                Entry(by, IF tty THEN "up" ELSE "", text, indent, TRUE,
                      frameDepth(stk, f), FALSE, TRUE)),
     nn |-> S.nn]

\* Frame.ReplaceLineN: n < 1 falls back to ReplaceLine; on a TTY cursor up n,
\* clear line, the line, cursor down n ("upN"); else the line and a newline
FrameReplaceLineN(S, stk, tty, f, by, n, text, indent) ==
    IF n < 1 THEN FrameReplaceLine(S, stk, tty, f, by, text, indent)
    ELSE [out |-> Append(S.out,
                     Entry(by, IF tty THEN "upN" ELSE "", text, indent, TRUE,
                           frameDepth(stk, f), FALSE, ~tty)),
          nn |-> S.nn]

\* a control sequence written on its own: "cursorup" is ansi.MoveCursorUp,
\* "clear" is ansi.ClearLine
Control(by, pre, nl) == Entry(by, pre, "", 0, FALSE, 0, FALSE, nl)

\* Frame.ReplaceBlock, the writes in order: cursor up (lineCount > 1), one
\* clear per old line with newlines between, for new lines cursor up again,
\* every new line (newlines between), and once more the lines past lineCount,
\* each behind a newline
ReplaceBlockWrites(stk, f, by, lineCount, lines) ==
    LET up     == IF lineCount > 1 THEN <<Control(by, "cursorup", FALSE)>> ELSE <<>>
        clears == [k \in 1..lineCount |-> Control(by, "clear", k < lineCount)]
        new    == [k \in 1..Len(lines) |->
                      Entry(by, "", lines[k], 0, TRUE, frameDepth(stk, f), FALSE,
                            k < Len(lines))]
        more   == [k \in 1..(IF Len(lines) > lineCount THEN Len(lines) - lineCount ELSE 0) |->
                      Entry(by, "", lines[lineCount + k], 0, TRUE, frameDepth(stk, f),
                            TRUE, FALSE)]
    IN  IF lineCount < 1 THEN <<>>
        ELSE IF Len(lines) = 0 THEN up \o clears
        ELSE up \o clears \o up \o new \o more

FrameReplaceBlock(S, stk, f, by, lineCount, lines) ==
    [out |-> S.out \o ReplaceBlockWrites(stk, f, by, lineCount, lines), nn |-> S.nn]

\* IndentedWriter.ReplaceLine / Frame.ReplaceLine
WriterReplaceLine(S, stk, tty, w, by, text) ==
    IF w.base = "frame"
    THEN FrameReplaceLine(S, stk, tty, 1, by, text,
                          IF w.wrapped /\ text # "" THEN w.indent ELSE 0)
    ELSE S

\* ------------------------------------------------------------- FrameAware
\* fields of a component used by FrameAware: w, inFrame, firstRender
FrameAwareSetOutput(c, w) == [c EXCEPT !.w = w, !.inFrame = IsFrameWriter(w)]

renderInFrameWithBuilder(S, stk, tty, c, by, text) ==
    IF c.firstRender THEN WriterWrite(S, stk, c.w, by, Content("", text, TRUE))
    ELSE IF IsFrameReplacer(c.w) THEN WriterReplaceLine(S, stk, tty, c.w, by, text)
    ELSE WriterWrite(S, stk, c.w, by, Content("", text, TRUE))

renderStandaloneWithFunc(S, stk, c, by, text) ==
    IF c.firstRender THEN WriterWrite(S, stk, c.w, by, Content("", text, FALSE))
    ELSE WriterWrite(WriterWrite(S, stk, c.w, by, Content("cr", "", FALSE)),
                     stk, c.w, by, Content("", text, FALSE))

RenderWithStringBuilder(S, stk, tty, c, by, text) ==
    IF c.inFrame THEN renderInFrameWithBuilder(S, stk, tty, c, by, text)
    ELSE renderStandaloneWithFunc(S, stk, c, by, text)

RenderFinal(S, stk, tty, c, by, text) ==
    IF c.inFrame
    THEN (IF IsFrameReplacer(c.w) THEN WriterReplaceLine(S, stk, tty, c.w, by, text)
          ELSE S)
    ELSE WriterWrite(S, stk, c.w, by, Content("cr", text, FALSE))

\* the trailing newline of Stop / Fail / Complete outside a frame
TrailingNewline(S, stk, c, by) ==
    IF c.inFrame THEN S
    ELSE WriterWrite(S, stk, c.w, by, Content("", "", TRUE))

\* -------------------------------------------------------------- components
\* spinner.New / progress.New: output is the process default until SetOutput.
\* A Progress built for a group task is New(title, 2) with the default
\* renderer Bar; shown is what its last render printed (<<>>: never rendered).
NewComponent(kind) ==
    [kind |-> kind, w |-> Stdout, inFrame |-> FALSE, firstRender |-> TRUE,
     message |-> "m",
     running |-> FALSE, state |-> "completed", loops |-> 0, startTime |-> 0,
     suppressRender |-> FALSE,
     completed |-> FALSE, failed |-> FALSE,
     current |-> 0, total |-> 2, renderer |-> "bar", shown |-> <<>>]

\* float64 values are kept in tenths of a percent, the precision "%.1f"
\* prints; the two non-finite results of a division by zero get codes
NaN == -1
Inf == -2

\* float64(a) / float64(b) * 100 for a >= 0, b >= 0, rounded to one decimal
FloatPercent(a, b) ==
    IF b = 0 THEN (IF a = 0 THEN NaN ELSE Inf)
    ELSE (2000 * a + b) \div (2 * b)

\* mutant of Percentage: the share of 100 instead of the share of total
PercentageOfHundred(c) ==
    IF c.total = 0 THEN 0 ELSE FloatPercent(c.current, 100)

\* Progress.Percentage
Percentage(c) ==
    IF c.total = 0 THEN 0 ELSE FloatPercent(c.current, c.total)

\* charRenderer.buildProgressSection (Bar, Dots): the percentage printed is
\* Percentage(); the bar's fill is barWidth * current / total, a division by
\* total whatever total is (the fill itself is not kept)
charRender(c) == [pct |-> Percentage(c), divisor |-> c.total]

\* minimalRenderer.Render: the percentage printed is current / total * 100
minimalRender(c) == [pct |-> FloatPercent(c.current, c.total), divisor |-> c.total]

\* ProgressRenderer.Render of the Progress's renderer
Render(c) == IF c.renderer = "minimal" THEN minimalRender(c) ELSE charRender(c)

Pair(c, S) == [c |-> c, S |-> S]

\* Spinner.Start: no-op while running, else flips running, takes the start
\* time (now: a logical clock) and launches animate
SpinnerStart(c, now) ==
    IF c.running THEN c
    ELSE [c EXCEPT !.running = TRUE, !.startTime = now, !.loops = @ + 1]

\* Spinner.UpdateMessage as used by Fail(message) / Complete(message)
SetMessage(c, m) == IF m # "" THEN [c EXCEPT !.message = m] ELSE c

\* Spinner.render: one tick of animate
SpinnerRender(c, S, stk, tty, by) ==
    IF ~c.running \/ c.suppressRender THEN Pair(c, S)
    ELSE Pair([c EXCEPT !.firstRender = FALSE],
              RenderWithStringBuilder(S, stk, tty, c, by, "run"))

\* Spinner.Stop / Spinner.Fail up to the send on stopChan
SpinnerStopLocked(c, st) == [c EXCEPT !.running = FALSE, !.state = st]

\* Spinner.renderFinal followed by the trailing newline of Stop / Fail
SpinnerRenderFinal(c, S, stk, tty, by) ==
    IF c.suppressRender THEN TrailingNewline(S, stk, c, by)
    ELSE TrailingNewline(RenderFinal(S, stk, tty, c, by, "final"), stk, c, by)

\* Progress.render
ProgressRender(c, S, stk, tty, by) ==
    Pair([c EXCEPT !.firstRender = FALSE, !.shown = <<Render(c)>>],
         RenderWithStringBuilder(S, stk, tty, c, by, "run"))

\* mutant of ProgressUpdate: no latch
ProgressUpdateNoLatch(c, S, stk, tty, by, cur, m) ==
    ProgressRender([c EXCEPT !.current = cur, !.message = m], S, stk, tty, by)

\* Progress.Update
ProgressUpdate(c, S, stk, tty, by, cur, m) ==
    IF c.completed THEN Pair(c, S)
    ELSE ProgressRender([c EXCEPT !.current = cur, !.message = m], S, stk, tty, by)

\* Progress.Increment
ProgressIncrement(c, S, stk, tty, by, m) ==
    IF c.completed THEN Pair(c, S)
    ELSE ProgressRender([c EXCEPT !.current = @ + 1, !.message = m], S, stk, tty, by)

\* the tail shared by Progress.Complete and Progress.Fail: render, final, newline
ProgressFinish(c, S, stk, tty, by) ==
    LET r == ProgressRender(c, S, stk, tty, by)
    IN  Pair(r.c, TrailingNewline(RenderFinal(r.S, stk, tty, r.c, by, "final"),
                                  stk, r.c, by))

\* mutant of ProgressComplete: current is left where it was
ProgressCompleteKeepsCurrent(c, S, stk, tty, by, m) ==
    IF c.completed THEN Pair(c, S)
    ELSE ProgressFinish([SetMessage(c, m) EXCEPT !.completed = TRUE], S, stk, tty, by)

\* Progress.Complete
ProgressComplete(c, S, stk, tty, by, m) ==
    IF c.completed THEN Pair(c, S)
    ELSE ProgressFinish([SetMessage(c, m) EXCEPT !.current = c.total, !.completed = TRUE],
                        S, stk, tty, by)

\* Progress.Fail
ProgressFail(c, S, stk, tty, by, m) ==
    IF c.completed \/ c.failed THEN Pair(c, S)
    ELSE ProgressFinish([SetMessage(c, m) EXCEPT !.failed = TRUE, !.completed = TRUE],
                        S, stk, tty, by)

VARIABLES
    title,          \* SpinGroup.title
    tasks,          \* SpinGroup.tasks
    output,         \* SpinGroup.output: "buf" or "frame"
    running,        \* SpinGroup.running
    currentIndex,   \* SpinGroup.currentIndex (0-based)
    subtaskOffset,  \* SpinGroup.subtaskOffset
    pc,             \* position of the goroutine that drives the group
    mode,           \* "none", "Run" or "RunInFrame"
    i,              \* loop variable of executeTasksSequentially (0-based)
    task,           \* executeTask's task (copy of *task)
    err,            \* executeTask's err
    result,         \* value returned by Run / RunInFrame
    comps,          \* task path -> component state (Spinner or Progress)
    pending,        \* goroutines spawned by the running task function
    spawned,        \* number of goroutines the running task function spawned
    stack,          \* frame.stack.frames
    needsNewline,   \* Frame.needsNewline of the frame RunInFrame opened
    isTTY,          \* term.IsTTY(), fixed when RunInFrame opens its frame
    out,            \* everything written to the group's original output
    calls,          \* ghost: component calls and task function calls
    log,            \* ghost: task function starts, in order
    errAt,          \* ghost: the error a task function returned (src: its task)
    stack0,         \* ghost: frame.stack.frames when Run / RunInFrame was called
    used            \* ghost: how much of each bound the run has used

vars == <<title, tasks, output, running, currentIndex, subtaskOffset, pc, mode,
          i, task, err, result, comps, pending, spawned, stack, needsNewline,
          isTTY, out, calls, log, errAt, stack0, used>>

groupVars == <<title, tasks, output, running, currentIndex, subtaskOffset>>

\* ---------------------------------------------------------------- SpinGroup
Sink == [out |-> out, nn |-> needsNewline]

Children(ts, p) == {k \in 1..Len(ts) : IsChild(p, ts[k].id)}

Roots(ts) == {k \in 1..Len(ts) : Len(ts[k].id) = 1}

\* the inputs a caller hands to AddTask before the run
SetupInputs ==
    {[name |-> "n", component |-> TRUE, taskFunc |-> TRUE, kind |-> k] : k \in Kinds}
    \cup {[name |-> "", component |-> TRUE, taskFunc |-> TRUE, kind |-> "spinner"],
          [name |-> "n", component |-> FALSE, taskFunc |-> TRUE, kind |-> "spinner"],
          [name |-> "n", component |-> TRUE, taskFunc |-> FALSE, kind |-> "spinner"],
          [name |-> "", component |-> FALSE, taskFunc |-> FALSE, kind |-> "spinner"]}

\* the inputs a task function hands to AddSubtask / AddTask during the run
RunInputs ==
    {[name |-> "n", component |-> TRUE, taskFunc |-> TRUE, kind |-> k] : k \in Kinds}

\* the inputs a goroutine spawned by a task function hands to AddSubtask
GoInputs ==
    {[name |-> "n", component |-> TRUE, taskFunc |-> TRUE, kind |-> "spinner"]}

\* mutant of NewTask: the depth handed in is dropped
NewTaskDepthless(id, in, depth, g) ==
    [id |-> id, name |-> in.name, component |-> in.component,
     taskFunc |-> in.taskFunc, depth |-> 0, g |-> g]

NewTask(id, in, depth, g) ==
    [id |-> id, name |-> in.name, component |-> in.component,
     taskFunc |-> in.taskFunc, depth |-> depth, g |-> g]

Register(cs, id, in) == IF in.component THEN cs @@ (id :> NewComponent(in.kind)) ELSE cs

\* AddTask: append a depth-0 task
AddTaskDepth == 0

AppendTask(ts, in) ==
    Append(ts, NewTask(<<Cardinality(Roots(ts)) + 1>>, in, AddTaskDepth, 0))

\* mutant of insertIndex: every subtask goes directly behind the current task
insertIndexNoOffset(ci, off) == ci + 1

\* AddSubtask: insertIndex := sg.currentIndex + 1 + sg.subtaskOffset
insertIndex(ci, off) == ci + 1 + off

\* mutant of subtaskDepth: every subtask gets depth 1
subtaskDepthFlat(ts, ci) == 0 + 1

\* AddSubtask: depth of the new task from the task at currentIndex
subtaskDepth(ts, ci) == (IF ci < Len(ts) THEN ts[ci + 1].depth ELSE 0) + 1

\* mutant of InsertAt: append(append(ts[:idx], t), ts[idx:]...) on a shared
\* backing array, which overwrites ts[idx] before it is copied
InsertAtAliased(ts, idx, t) ==
    IF idx >= Len(ts) THEN Append(ts, t)
    ELSE SubSeq(ts, 1, idx) \o <<t, t>> \o SubSeq(ts, idx + 2, Len(ts))

\* AddSubtask: append, or splice in the middle (idx is 0-based)
InsertAt(ts, idx, t) ==
    IF idx >= Len(ts) THEN Append(ts, t)
    ELSE SubSeq(ts, 1, idx) \o <<t>> \o SubSeq(ts, idx + 1, Len(ts))

\* mutant of DoAddSubtask: the subtask is spliced in at sg.currentIndex, in
\* front of the task that is executing
DoAddSubtaskInFront(owner, in, g) ==
    LET id == Append(owner, Cardinality(Children(tasks, owner)) + 1)
        t  == NewTask(id, in, subtaskDepth(tasks, currentIndex), g)
    IN  /\ tasks' = InsertAt(tasks, currentIndex, t)
        /\ subtaskOffset' = subtaskOffset + 1
        /\ comps' = Register(comps, id, in)

\* the whole of AddSubtask, called on behalf of task `owner` by goroutine g
\* (g = 0: the task function itself)
DoAddSubtask(owner, in, g) ==
    LET id == Append(owner, Cardinality(Children(tasks, owner)) + 1)
        t  == NewTask(id, in, subtaskDepth(tasks, currentIndex), g)
    IN  /\ tasks' = InsertAt(tasks, insertIndex(currentIndex, subtaskOffset), t)
        /\ subtaskOffset' = subtaskOffset + 1
        /\ comps' = Register(comps, id, in)

\* mutant of validateTasks: the task name is not checked
RECURSIVE validateTasksNoName(_, _)
validateTasksNoName(ts, k) ==
    IF k > Len(ts) THEN NilErr
    ELSE IF ~ts[k].component THEN ConfigErr("task component cannot be nil")
    ELSE IF ~ts[k].taskFunc THEN ConfigErr("task function cannot be nil")
    ELSE IF ts[k].depth < 0 THEN ConfigErr("task depth cannot be negative")
    ELSE validateTasksNoName(ts, k + 1)

\* validate: the first configuration error, or nil
RECURSIVE validateTasks(_, _)
validateTasks(ts, k) ==
    IF k > Len(ts) THEN NilErr
    ELSE IF ts[k].name = "" THEN ConfigErr("task name cannot be empty")
    ELSE IF ~ts[k].component THEN ConfigErr("task component cannot be nil")
    ELSE IF ~ts[k].taskFunc THEN ConfigErr("task function cannot be nil")
    ELSE IF ts[k].depth < 0 THEN ConfigErr("task depth cannot be negative")
    ELSE validateTasks(ts, k + 1)

validate(ttl, ts) ==
    IF ttl = "" THEN ConfigErr("spingroup title cannot be empty")
    ELSE IF Len(ts) = 0 THEN ConfigErr("spingroup must have at least one task")
    ELSE validateTasks(ts, 1)

\* frame.Open: push, then write the opening border
OpenEntry == Entry(NoPath, "", "open", 0, TRUE, 0, FALSE, TRUE)

CloseEntry == Entry(NoPath, "", "close", 0, TRUE, 0, FALSE, TRUE)

\* mutant of FrameCloses: Close never finds its frame on top
FrameClosesNever(stk, f) == FALSE

\* mutant of FrameCloses: Close acts whenever its frame is anywhere on the stack
FrameClosesAnywhere(stk, f) == \E k \in 1..Len(stk) : stk[k] = f

\* Frame.Close on sink S: ignored unless f is the current top of the stack
FrameCloses(stk, f) == Len(stk) > 0 /\ stk[Len(stk)] = f

Pop(stk) == SubSeq(stk, 1, Len(stk) - 1)

Call(id, op, arg) == [task |-> id, op |-> op, arg |-> arg]

Init ==
    /\ title \in Titles
    /\ isTTY = FALSE
    /\ tasks = <<>>
    /\ output = "buf"
    /\ running = FALSE
    /\ currentIndex = 0
    /\ subtaskOffset = 0
    /\ pc = "setup"
    /\ mode = "none"
    /\ i = 0
    /\ task = NoTask
    /\ err = NilErr
    /\ result = NoResult
    /\ comps = <<>>
    /\ pending = {}
    /\ spawned = 0
    /\ stack = <<>>
    /\ needsNewline = FALSE
    /\ out = <<>>
    /\ calls = <<>>
    /\ log = <<>>
    /\ errAt = NilErr
    /\ stack0 = <<>>
    /\ used = [frames |-> 0, runs |-> 0]

\* what the run has used of MaxWork
Work == Len(tasks) + Cardinality(pending) + used.frames

\* AddTask called by the owner of the group before Run
AddTask(in) ==
    /\ pc = "setup"
    /\ Len(tasks) < MaxRoots
    /\ Work < MaxWork
    /\ tasks' = AppendTask(tasks, in)
    /\ comps' = Register(comps, <<Cardinality(Roots(tasks)) + 1>>, in)
    /\ UNCHANGED <<title, output, running, currentIndex, subtaskOffset, pc, mode,
                   i, task, err, result, pending, spawned, stack, needsNewline,
                   isTTY, out, calls, log, errAt>>
    /\ UNCHANGED <<used, stack0>>

\* mutant of finalizeExecution: the indices are left where the run ended
finalizeNoReset ==
    /\ running' = FALSE
    /\ UNCHANGED <<currentIndex, subtaskOffset>>

\* finalizeExecution (deferred by Run)
finalizeExecution ==
    /\ running' = FALSE
    /\ currentIndex' = 0
    /\ subtaskOffset' = 0

\* what Run / RunInFrame do after the task loop or validation has produced r:
\* RunInFrame restores the output and its deferred f.Close() runs
Leave(m, stk, S, r) ==
    /\ result' = r
    /\ pc' = "done"
    /\ output' = "buf"
    /\ needsNewline' = S.nn
    /\ IF m = "RunInFrame" /\ FrameCloses(stk, 1)
       THEN stack' = Pop(stk) /\ out' = Append(S.out, CloseEntry)
       ELSE stack' = stk /\ out' = S.out

\* whether the validation pass lets the run proceed
ValidationPasses(v) == v = NilErr

\* Run (m = "Run") or RunInFrame (m = "RunInFrame") up to the task loop:
\* RunInFrame opens the frame and redirects the output, then Run validates
\* and initializes the execution state
Begin(m) ==
    /\ pc = "setup"
    /\ mode' = m
    /\ isTTY' \in (IF m = "RunInFrame" THEN BOOLEAN ELSE {isTTY})
    /\ LET stk1 == IF m = "RunInFrame" THEN Append(stack, 1) ELSE stack
           S1   == IF m = "RunInFrame"
                   THEN [out |-> Append(out, OpenEntry), nn |-> needsNewline]
                   ELSE Sink
           v    == validate(title, tasks)
       IN  IF ValidationPasses(v)
           THEN /\ running' = TRUE
                /\ pc' = "loop"
                /\ output' = IF m = "RunInFrame" THEN "frame" ELSE output
                /\ stack' = stk1
                /\ out' = S1.out
                /\ UNCHANGED <<result, needsNewline, currentIndex, subtaskOffset>>
           ELSE /\ Leave(m, stk1, S1, v)
                /\ UNCHANGED <<running, currentIndex, subtaskOffset>>
    /\ i' = 0
    /\ stack0' = stack
    /\ UNCHANGED <<title, tasks, task, err, comps, pending, spawned,
                   calls, log, errAt>>
    /\ UNCHANGED used

Run == Begin("Run")

RunInFrame == Begin("RunInFrame")

\* mutant of resetOffset: the offset of the previous task is kept
keepOffset(off) == off

\* prepareTaskForExecution: sg.subtaskOffset = 0 for each new task
resetOffset(off) == 0

\* mutant of NextIndex: the loop steps over a task
NextIndexSkip(k) == k + 2

\* executeTasksSequentially: i++
NextIndex(k) == k + 1

\* executeTasksSequentially: the loop test, then prepareTaskForExecution(i)
executeTasksSequentially ==
    /\ pc = "loop"
    /\ IF i < Len(tasks)
       THEN /\ currentIndex' = i
            /\ subtaskOffset' = resetOffset(subtaskOffset)
            /\ task' = tasks[i + 1]
            /\ pc' = "exec"
            /\ UNCHANGED <<running, result, output, stack, out, needsNewline>>
       ELSE /\ finalizeExecution
            /\ Leave(mode, stack, Sink, NilErr)
            /\ UNCHANGED task
    /\ UNCHANGED <<title, tasks, mode, i, err, comps, pending, spawned, isTTY,
                   calls, log, errAt>>
    /\ UNCHANGED <<used, stack0>>

\* the task that follows index k (0-based) in the list, NoPath when none
NextAfter(ts, k) == IF k + 2 <= Len(ts) THEN ts[k + 2].id ELSE NoPath

\* executeTask up to the call of the task function: SetOutput, Start, taskFunc
executeTask ==
    /\ pc = "exec"
    /\ LET id == task.id
           c0 == FrameAwareSetOutput(comps[id], NewIndentedWriter(output, task.depth))
           r  == IF c0.kind = "spinner" THEN Pair(SpinnerStart(c0, Len(calls) + 1), Sink)
                 ELSE ProgressRender(c0, Sink, stack, isTTY, id)
       IN  /\ comps' = [comps EXCEPT ![id] = r.c]
           /\ out' = r.S.out
           /\ needsNewline' = r.S.nn
           /\ calls' = calls \o <<Call(id, "SetOutput", ""), Call(id, "Start", ""),
                                  Call(id, "Func", "")>>
           /\ log' = Append(log, [id |-> id, next |-> NextAfter(tasks, i),
                                  depth |-> task.depth])
    /\ pc' = "func"
    /\ pending' = {}
    /\ spawned' = 0
    /\ UNCHANGED <<title, tasks, output, running, currentIndex, subtaskOffset,
                   mode, i, task, err, result, stack, isTTY, errAt>>
    /\ UNCHANGED <<used, stack0>>

\* room for one more subtask, counting the goroutines that have yet to add theirs
Room == /\ Cardinality({k \in 1..Len(tasks) : Len(tasks[k].id) > 1})
              + Cardinality(pending) < MaxSub
        /\ Work < MaxWork

\* the task function calls sg.AddSubtask itself
AddSubtask(in) ==
    /\ pc = "func"
    /\ Room
    /\ DoAddSubtask(task.id, in, 0)
    /\ UNCHANGED <<title, output, running, currentIndex, pc, mode, i, task, err,
                   result, pending, spawned, stack, needsNewline, isTTY, out,
                   calls, log, errAt>>
    /\ UNCHANGED <<used, stack0>>

\* the task function spawns a goroutine that will call sg.AddSubtask
GoSpawn(in) ==
    /\ pc = "func"
    /\ Room
    /\ spawned < MaxGo
    /\ spawned' = spawned + 1
    /\ pending' = pending \cup {[g |-> spawned + 1, owner |-> task.id, in |-> in]}
    /\ UNCHANGED <<title, tasks, output, running, currentIndex, subtaskOffset,
                   pc, mode, i, task, err, result, comps, stack, needsNewline,
                   isTTY, out, calls, log, errAt>>
    /\ UNCHANGED <<used, stack0>>

\* a spawned goroutine acquires the group's mutex and runs AddSubtask
GoAddSubtask(p) ==
    /\ p \in pending
    /\ DoAddSubtask(p.owner, p.in, p.g)
    /\ pending' = pending \ {p}
    /\ UNCHANGED <<title, output, running, currentIndex, pc, mode, i, task, err,
                   result, spawned, stack, needsNewline, isTTY, out, calls, log,
                   errAt>>
    /\ UNCHANGED <<used, stack0>>

\* the task function calls Update on its Progress component
FuncUpdate ==
    /\ pc = "func"
    /\ comps[task.id].kind = "progress"
    /\ Work < MaxWork
    /\ used' = [used EXCEPT !.frames = @ + 1]
    /\ LET r == ProgressUpdate(comps[task.id], Sink, stack, isTTY, task.id, 1, "u")
       IN  /\ comps' = [comps EXCEPT ![task.id] = r.c]
           /\ out' = r.S.out
           /\ needsNewline' = r.S.nn
    /\ UNCHANGED <<title, tasks, output, running, currentIndex, subtaskOffset,
                   pc, mode, i, task, err, result, pending, spawned, stack, isTTY,
                   calls, log, errAt, stack0>>

\* animate: the ticker fires and the loop calls render
Tick(id) ==
    /\ id \in DOMAIN comps
    /\ comps[id].loops > 0
    /\ Work < MaxWork
    /\ used' = [used EXCEPT !.frames = @ + 1]
    /\ LET r == SpinnerRender(comps[id], Sink, stack, isTTY, id)
       IN  /\ comps' = [comps EXCEPT ![id] = r.c]
           /\ out' = r.S.out
           /\ needsNewline' = r.S.nn
    /\ UNCHANGED <<title, tasks, output, running, currentIndex, subtaskOffset,
                   pc, mode, i, task, err, result, pending, spawned, stack, isTTY,
                   calls, log, errAt, stack0>>

\* mutant of FinishOp: a successful task's component is never completed
FinishOpNoComplete(e) == IF e # NilErr THEN "Fail" ELSE "None"

\* executeTask: which component method finishes the task
FinishOp(e) == IF e # NilErr THEN "Fail" ELSE "Complete"

\* mutant of FinishArg: the error message is dropped
FinishArgEmpty(e) == ""

\* executeTask: the argument of that call, err.Error() or ""
FinishArg(e) == IF e # NilErr THEN e.msg ELSE ""

\* mutant of StopsLoop: the loop goes on after a failure
StopsLoopNever(e) == FALSE

\* executeTasksSequentially: an error from executeTask ends the loop
StopsLoop(e) == e # NilErr

\* executeTask returns e to executeTasksSequentially: return it, or i++
AfterTask(e, S) ==
    IF StopsLoop(e)
    THEN /\ finalizeExecution
         /\ Leave(mode, stack, S, e)
         /\ UNCHANGED i
    ELSE /\ i' = NextIndex(i)
         /\ pc' = "loop"
         /\ out' = S.out
         /\ needsNewline' = S.nn
         /\ UNCHANGED <<running, currentIndex, subtaskOffset, result, output, stack>>

\* the task function returns e after waiting for the goroutines it spawned;
\* executeTask calls Fail(err.Error()) or Complete("").  A Progress finishes
\* within the call; a Spinner takes its lock, flips running and goes on to
\* send on stopChan.
FuncReturn(e) ==
    /\ pc = "func"
    /\ pending = {}
    /\ err' = e
    /\ errAt' = IF e # NilErr THEN e ELSE errAt
    /\ LET id == task.id
           op == FinishOp(e)
           c0 == comps[id]
       IN  IF op \notin {"Fail", "Complete"}
              THEN /\ comps' = comps
                   /\ calls' = calls
                   /\ AfterTask(e, Sink)
              ELSE IF c0.kind = "progress"
              THEN LET r == IF op = "Fail"
                            THEN ProgressFail(c0, Sink, stack, isTTY, id, FinishArg(e))
                            ELSE ProgressComplete(c0, Sink, stack, isTTY, id, FinishArg(e))
                   IN  /\ comps' = [comps EXCEPT ![id] = r.c]
                       /\ calls' = calls \o <<Call(id, op, FinishArg(e)),
                                              Call(id, "Return", "")>>
                       /\ AfterTask(e, r.S)
              ELSE IF c0.running
              THEN /\ comps' = [comps EXCEPT ![id] =
                          SpinnerStopLocked(SetMessage(c0, FinishArg(e)),
                              IF op = "Fail" THEN "failed" ELSE "completed")]
                   /\ calls' = Append(calls, Call(id, op, FinishArg(e)))
                   /\ pc' = "stopsend"
                   /\ UNCHANGED <<running, currentIndex, subtaskOffset, result,
                                  output, stack, out, needsNewline, i>>
              ELSE /\ comps' = [comps EXCEPT ![id] = SetMessage(c0, FinishArg(e))]
                   /\ calls' = calls \o <<Call(id, op, FinishArg(e)),
                                          Call(id, "Return", "")>>
                   /\ AfterTask(e, Sink)
    /\ UNCHANGED <<title, tasks, mode, task, pending, spawned, isTTY, log>>
    /\ UNCHANGED <<used, stack0>>

\* Stop / Fail blocked in `s.stopChan <- true` meets animate's receive:
\* the loop returns, the stopping call goes on
StopHandshake ==
    /\ pc = "stopsend"
    /\ comps[task.id].loops > 0
    /\ comps' = [comps EXCEPT ![task.id].loops = @ - 1]
    /\ pc' = "final"
    /\ UNCHANGED <<title, tasks, output, running, currentIndex, subtaskOffset,
                   mode, i, task, err, result, pending, spawned, stack,
                   needsNewline, isTTY, out, calls, log, errAt>>
    /\ UNCHANGED <<used, stack0>>

\* Stop / Fail after the handshake: renderFinal, trailing newline, return;
\* then executeTask returns err
FinalRender ==
    /\ pc = "final"
    /\ calls' = Append(calls, Call(task.id, "Return", ""))
    /\ AfterTask(err, SpinnerRenderFinal(comps[task.id], Sink, stack, isTTY, task.id))
    /\ UNCHANGED <<title, tasks, mode, task, err, comps, pending, spawned, isTTY,
                   log, errAt>>
    /\ UNCHANGED <<used, stack0>>

Next ==
    \/ \E in \in SetupInputs : AddTask(in)
    \/ Run
    \/ RunInFrame
    \/ executeTasksSequentially
    \/ executeTask
    \/ \E in \in RunInputs : AddSubtask(in)
    \/ \E in \in GoInputs : GoSpawn(in)
    \/ \E p \in pending : GoAddSubtask(p)
    \/ FuncUpdate
    \/ \E id \in DOMAIN comps : Tick(id)
    \/ \E e \in {NilErr} \cup {TaskErr(task.id, m) : m \in ErrMsgs} : FuncReturn(e)
    \/ StopHandshake
    \/ FinalRender

Spec == Init /\ [][Next]_vars

\* ------------------------------------------------------------------ claims
LogIds == [k \in 1..Len(log) |-> log[k].id]

TaskIds == [k \in 1..Len(tasks) |-> tasks[k].id]

Range(sq) == {sq[k] : k \in 1..Len(sq)}

Succeeded == pc = "done" /\ result = NilErr

NoSubtasks == \A k \in 1..Len(tasks) : Len(tasks[k].id) = 1

\* the tasks that have a subtask of their own
HasKids(p) == Children(tasks, p) # {}

\* C1: for a group of N tasks added with AddTask, none of which adds
\* subtasks and all of whose functions return nil, Run calls each task
\* function exactly once, in the order the tasks were added, and returns nil.
C1_SequentialOrder ==
    (pc = "done" /\ result.kind # "config" /\ NoSubtasks /\ errAt = NilErr)
        => /\ LogIds = [k \in 1..Len(tasks) |-> <<k>>]
           /\ result = NilErr

C1_Witness ==
    /\ Succeeded
    /\ NoSubtasks
    /\ Len(tasks) >= 2
    /\ LogIds = <<<<1>>, <<2>>>> \o SubSeq(LogIds, 3, Len(LogIds))

C3_SubtaskOrder ==
    Succeeded =>
        \A k \in 1..Len(log) :
            LET p == log[k].id
                n == Cardinality(Children(tasks, p))
            IN  (\A c \in Children(tasks, p) :
                     tasks[c].g = 0 /\ ~HasKids(tasks[c].id))
                => /\ k + n <= Len(log)
                   /\ \A j \in 1..n : log[k + j].id = Append(p, j)
                   /\ log[k].next # NoPath
                        => /\ k + n + 1 <= Len(log)
                           /\ log[k + n + 1].id = log[k].next

C3_Witness ==
    /\ Succeeded
    /\ \E k \in 1..Len(log) :
          /\ Cardinality(Children(tasks, log[k].id)) = 2
          /\ \A c \in Children(tasks, log[k].id) : tasks[c].g = 0
          /\ log[k].next # NoPath
          /\ k + 3 <= Len(log)
          /\ log[k + 3].id = log[k].next

\* C4: with subtasks nested to any level a successful run starts every task
\* of the list exactly once, in the depth-first pre-order of the task tree
\* (a task, then each of its subtasks in the order added, each with its whole
\* subtree), and the whole subtree of a task is started before the task that
\* followed it in the list when it started.
C4_PreOrder ==
    Succeeded =>
        /\ Len(log) = Len(tasks)
        /\ Range(LogIds) = Range(TaskIds)
        /\ \A a \in 1..(Len(log) - 1) : PathLess(log[a].id, log[a + 1].id)
        /\ \A k \in 1..Len(log) :
              log[k].next # NoPath
                 => \A j \in 1..Len(log) :
                       IsPrefix(log[k].id, log[j].id)
                          => j < IndexOf(LogIds, log[k].next)

C4_Witness ==
    /\ Succeeded
    /\ LogIds = <<<<1>>, <<1, 1>>, <<1, 1, 1>>, <<2>>>>

\* C5: when goroutines spawned by the running task function call AddSubtask
\* and the function waits for them, then under every interleaving each
\* goroutine's subtask is in the list exactly once, the subtasks of the task
\* lie contiguously right after it in lock-acquisition order and before the
\* task that followed it when it started, and a successful run starts each
\* of them exactly once.
C5_ConcurrentAdds ==
    /\ (pc = "func" /\ pending = {})
          => LET p  == task.id
                 n  == Cardinality(Children(tasks, p))
                 ip == IndexOf(TaskIds, p)
             IN  /\ \A g \in 1..spawned :
                       Cardinality({c \in Children(tasks, p) : tasks[c].g = g}) = 1
                 /\ ip + n <= Len(tasks)
                 /\ \A j \in 1..n : tasks[ip + j].id = Append(p, j)
                 /\ log[Len(log)].next # NoPath
                       => /\ ip + n + 1 <= Len(tasks)
                          /\ tasks[ip + n + 1].id = log[Len(log)].next
    /\ Succeeded
          => \A k \in 1..Len(tasks) :
                tasks[k].g > 0
                   => Cardinality({j \in 1..Len(log) : log[j].id = tasks[k].id}) = 1

C5_Witness ==
    /\ Succeeded
    /\ \E k \in 1..Len(tasks) :
          /\ k + 3 <= Len(tasks)
          /\ tasks[k + 1].id = Append(tasks[k].id, 1)
          /\ tasks[k + 1].g = 2
          /\ tasks[k + 2].id = Append(tasks[k].id, 2)
          /\ tasks[k + 2].g = 1
          /\ Len(tasks[k + 3].id) = 1
          /\ LogIds = TaskIds

\* C6: every task added by AddTask has depth 0, every subtask added by
\* AddSubtask on behalf of an executing task has that task's depth plus 1
\* (its depth is the length of its chain of parents), and no depth is negative.
C6_Depth ==
    \A k \in 1..Len(tasks) :
        /\ tasks[k].depth = Len(tasks[k].id) - 1
        /\ tasks[k].depth >= 0
        /\ \A j \in 1..Len(tasks) :
              IsChild(tasks[j].id, tasks[k].id) => tasks[k].depth = tasks[j].depth + 1

C6_Witness ==
    \E k \in 1..Len(tasks) : Len(tasks[k].id) = 3 /\ tasks[k].depth = 2

\* C7: every visible line of a task's component (running/update frames and
\* the final complete/fail frame) reaches the group's output indented by one
\* unit (2 spaces) per level of the task's depth.
C7_Indentation ==
    \A k \in 1..Len(out) :
        (out[k].by # NoPath /\ out[k].text \in {"run", "final"})
            => out[k].indent = IndentUnit * (Len(out[k].by) - 1)

\* the configuration that validate rejects
Invalid ==
    \/ title = ""
    \/ Len(tasks) = 0
    \/ \E k \in 1..Len(tasks) :
          \/ tasks[k].name = ""
          \/ ~tasks[k].component
          \/ ~tasks[k].taskFunc
          \/ tasks[k].depth < 0

Untouched ==
    /\ calls = <<>>
    /\ log = <<>>
    /\ \A id \in DOMAIN comps : comps[id] = NewComponent(comps[id].kind)

\* C8 as stated: with an invalid configuration the validation error is
\* returned with no component called, no task function called and nothing
\* written to the group's output, through Run and through RunInFrame alike.
C8_NothingWritten ==
    (pc # "setup" /\ Invalid)
        => /\ pc = "done"
           /\ result.kind = "config"
           /\ Untouched
           /\ out = <<>>

\* C8 (amended): with an invalid configuration the validation error is
\* returned with no component called and no task function called; through
\* Run nothing is written to the group's output, through RunInFrame exactly
\* the opening and the closing border of the frame are written.
C8_ConfigErrorFirst ==
    (pc # "setup" /\ Invalid)
        => /\ pc = "done"
           /\ result.kind = "config"
           /\ Untouched
           /\ mode = "Run" => out = <<>>
           /\ mode = "RunInFrame" => out = <<OpenEntry, CloseEntry>>

C8_Witness ==
    /\ pc = "done"
    /\ result = ConfigErr("task function cannot be nil")
    /\ mode = "RunInFrame"
    /\ Len(tasks) = 2
    /\ out = <<OpenEntry, CloseEntry>>

\* the calls received by the component of task id, or made to its function
CallsOf(id) == SelectSeq(calls, LAMBDA c : c.task = id)

\* the lifecycle executeTask owes a task whose function returned e
Lifecycle(id, e) ==
    <<Call(id, "SetOutput", ""), Call(id, "Start", ""), Call(id, "Func", ""),
      IF e # NilErr THEN Call(id, "Fail", e.msg) ELSE Call(id, "Complete", ""),
      Call(id, "Return", "")>>

\* C9: the component of every task that Run executes receives SetOutput,
\* then Start, then the task function is called, then exactly one of
\* Complete("") (nil) or Fail(err.Error()) (err); that call has returned when
\* Run returns, and the component of a task that is not executed receives no
\* call at all.
C9_Lifecycle ==
    /\ \A j \in 1..Len(calls) : calls[j].task \in Range(LogIds)
    /\ \A k \in 1..Len(tasks) :
          LET id == tasks[k].id
              cs == CallsOf(id)
              e  == IF errAt.src = id THEN errAt ELSE NilErr
          IN  /\ Len(cs) <= 5
              /\ cs = SubSeq(Lifecycle(id, e), 1, Len(cs))
              /\ id \notin Range(LogIds) => cs = <<>>
              /\ id \in Range(LogIds) => Len(cs) >= 3
              /\ (pc = "done" /\ id \in Range(LogIds)) => Len(cs) = 5

C9_Witness ==
    /\ pc = "done"
    /\ result.kind = "task"
    /\ Len(log) = 2
    /\ Len(tasks) = 3
    /\ CallsOf(log[1].id)[4].op = "Complete"
    /\ CallsOf(log[2].id)[4] = Call(log[2].id, "Fail", "e1")
    /\ CallsOf(tasks[3].id) = <<>>

\* how many calls with operation op have been made
Count(op) == Cardinality({j \in 1..Len(calls) : calls[j].op = op})

\* the place of an output entry in the order the tasks were started; the
\* opening border comes first and the closing border last
Rank(e) ==
    IF e.by # NoPath THEN IndexOf(LogIds, e.by)
    ELSE IF e.text = "open" THEN 0 ELSE Len(log) + 1

\* C10: Run does not call Start on a task's component before the function of
\* the task started before it has returned and the Complete/Fail call on its
\* component has returned: at every instant at most one component is between
\* Start and the return of Complete/Fail, a Start directly follows the
\* SetOutput of its task and that SetOutput follows the previous task's
\* return, and in the output no write of an earlier task's component follows
\* a write of a later task's component.
C10_OneAtATime ==
    /\ Count("Start") - Count("Return") \in {0, 1}
    /\ \A j \in 1..Len(calls) :
          calls[j].op = "SetOutput"
             => /\ j > 1 => calls[j - 1].op = "Return"
                /\ j < Len(calls) => calls[j + 1].op = "Start"
    /\ \A a \in 1..(Len(out) - 1) : Rank(out[a]) <= Rank(out[a + 1])

C10_Witness ==
    /\ pc = "func"
    /\ Len(log) = 2
    /\ \E a, b \in 1..Len(out) :
          /\ a < b
          /\ out[a].by = log[1].id /\ out[a].text = "run"
          /\ out[b].by = log[2].id
          /\ comps[log[1].id].kind = "spinner"

\* ------------------------------------------------------------------ frames
\* Frames opened with frame.Open besides the one RunInFrame opens (frame 1):
\* by the owner of the group before the run, or by a running task function.
\* They are numbered 2, 3, ... in the order opened and write to the same
\* output as the group (frame.WithOutput).
MaxFrames == 2

Opened == {calls[j].arg : j \in {k \in 1..Len(calls) : calls[k].op = "Open"}}

\* who calls frame.Open / Frame.Close: a task function, or the owner (NoPath)
Caller == IF pc = "func" THEN task.id ELSE NoPath

\* the owner opens and closes its frames before it builds the group (the two
\* commute); a task function does while it runs
FrameCaller == (pc = "setup" /\ Len(tasks) = 0) \/ pc = "func"

\* frame.Open: push the new frame, then write its opening border
Open ==
    /\ FrameCaller
    /\ Cardinality(Opened) < MaxFrames
    /\ LET f == Cardinality(Opened) + 2
       IN  /\ stack' = Append(stack, f)
           /\ out' = Append(out, OpenEntry)
           /\ calls' = Append(calls, Call(Caller, "Open", f))
    /\ UNCHANGED <<title, tasks, output, running, currentIndex, subtaskOffset,
                   pc, mode, i, task, err, result, comps, pending, spawned,
                   needsNewline, isTTY, log, errAt, stack0, used>>

\* Frame.Close on a frame obtained from frame.Open: nothing happens unless
\* the frame is the current top; else pop, then write the closing border
Close(f) ==
    /\ FrameCaller
    /\ f \in Opened
    /\ Count("Close") <= MaxFrames
    /\ IF FrameCloses(stack, f)
       THEN stack' = Pop(stack) /\ out' = Append(out, CloseEntry)
       ELSE stack' = stack /\ out' = out
    /\ calls' = Append(calls, Call(Caller, "Close", f))
    /\ UNCHANGED <<title, tasks, output, running, currentIndex, subtaskOffset,
                   pc, mode, i, task, err, result, comps, pending, spawned,
                   needsNewline, isTTY, log, errAt, stack0, used>>

NextFrames ==
    \/ \E in \in GoInputs : AddTask(in)
    \/ RunInFrame
    \/ executeTasksSequentially
    \/ executeTask
    \/ \E e \in {NilErr} \cup {TaskErr(task.id, m) : m \in ErrMsgs} : FuncReturn(e)
    \/ StopHandshake
    \/ FinalRender
    \/ Open
    \/ \E f \in Opened : Close(f)

SpecFrames == Init /\ [][NextFrames]_vars

\* the frames task functions opened during the run
OpenedInRun ==
    {calls[j].arg : j \in {k \in 1..Len(calls) :
                              calls[k].op = "Open" /\ calls[k].task # NoPath}}

\* RunInFrame has returned with its frame closed: off the stack, the closing
\* border written last, the stack as it was before the call
FrameClosed ==
    /\ \A k \in 1..Len(stack) : stack[k] # 1
    /\ stack = stack0
    /\ Len(out) > 0
    /\ out[Len(out)] = CloseEntry

\* C11 as stated: on every return path of RunInFrame the frame it opened has
\* been closed, whatever the task functions did.
C11_ClosedWhatever ==
    (pc = "done" /\ mode = "RunInFrame") => FrameClosed

\* C11 (amended): on every return path of RunInFrame (validation error, all
\* tasks succeed, a task fails), provided the task functions have closed every
\* frame they opened, the frame RunInFrame opened is off the global stack, its
\* closing border has been written and the stack is as it was before the call.
C11_FrameClosed ==
    (pc = "done" /\ mode = "RunInFrame"
        /\ \A f \in OpenedInRun : \A k \in 1..Len(stack) : stack[k] # f)
        => FrameClosed

C11_Witness ==
    /\ pc = "done"
    /\ mode = "RunInFrame"
    /\ result.kind = "task"
    /\ stack0 = <<2>>
    /\ OpenedInRun = {3}
    /\ FrameClosed

\* the call that a step adds to the log of calls
LastCall == calls'[Len(calls')]

Called(op) == Len(calls') = Len(calls) + 1 /\ LastCall.op = op

Top(stk) == IF Len(stk) = 0 THEN 0 ELSE stk[Len(stk)]

StackDiscipline ==
    /\ Called("Open")
          => /\ stack' = Append(stack, LastCall.arg)
             /\ LastCall.arg \notin Range(stack)
             /\ LastCall.arg \notin Opened
    /\ Called("Close")
          => IF Top(stack) = LastCall.arg
             THEN /\ stack' = SubSeq(stack, 1, Len(stack) - 1)
                  /\ out' = Append(out, CloseEntry)
             ELSE /\ stack' = stack
                  /\ out' = out
    /\ \A f \in Range(stack) \ Range(stack') :
          /\ f = Top(stack)
          /\ stack' = SubSeq(stack, 1, Len(stack) - 1)
    /\ \A f \in Range(stack') \ Range(stack) :
          /\ f \notin Opened
          /\ stack' = Append(stack, f)

\* C20: Open pushes the new frame on top of the global frame stack; Close on
\* a frame that is not the current top leaves the stack unchanged and writes
\* nothing; Close on the top frame removes exactly that frame and writes its
\* closing border; a frame leaves the stack only from the top, and a frame
\* that has left never comes back (it is popped at most once).
C20_StackLIFO == [][StackDiscipline]_vars

C20_Witness ==
    /\ \E a, b, c \in 1..Len(calls) :
          /\ a < b /\ b < c
          /\ calls[a].op = "Close" /\ calls[a].arg = 2
          /\ calls[b].op = "Close" /\ calls[b].arg = 3
          /\ calls[c].op = "Close" /\ calls[c].arg = 2
          /\ \A j \in 1..a : calls[j].op \in {"Open", "Close"}
          /\ \A j \in 1..(a - 1) : calls[j].op = "Open"
    /\ stack = <<>>
    /\ Cardinality({k \in 1..Len(out) : out[k].text = "close"}) = 2

\* ----------------------------------------------------------------- spinner
\* One Spinner driven directly by one goroutine (no SpinGroup): Start, Stop,
\* Complete, Fail and UpdateMessage in any order, with its animation loop
\* running in the background.  The spinner is comps[Sid]; pc is the caller's
\* position: "sp" between calls, "sp_send" blocked in the send on stopChan,
\* "sp_final" after the loop has received.
MaxSpCalls == 3

Sid == <<1>>

Msgs == {"", "x"}

InitSpinner ==
    /\ title = "T"
    /\ tasks = <<>>
    /\ output \in {"buf", "frame"}
    /\ stack = IF output = "frame" THEN <<1>> ELSE <<>>
    /\ out = IF output = "frame" THEN <<OpenEntry>> ELSE <<>>
    /\ \E sup \in BOOLEAN :
          comps = (Sid :> [FrameAwareSetOutput(NewComponent("spinner"), Plain(output))
                              EXCEPT !.suppressRender = sup])
    /\ isTTY = FALSE
    /\ running = FALSE
    /\ currentIndex = 0
    /\ subtaskOffset = 0
    /\ pc = "sp"
    /\ mode = "none"
    /\ i = 0
    /\ task = NoTask
    /\ err = NilErr
    /\ result = NoResult
    /\ pending = {}
    /\ spawned = 0
    /\ needsNewline = FALSE
    /\ calls = <<>>
    /\ log = <<>>
    /\ errAt = NilErr
    /\ stack0 = <<>>
    /\ used = [frames |-> 0, runs |-> 0]

\* Start()
SStart ==
    /\ pc = "sp"
    /\ Len(calls) < MaxSpCalls
    /\ comps' = [comps EXCEPT ![Sid] = SpinnerStart(@, Len(calls) + 1)]
    /\ calls' = Append(calls, Call(Sid, "Start", ""))
    /\ UNCHANGED <<title, tasks, output, running, currentIndex, subtaskOffset,
                   pc, mode, i, task, err, result, pending, spawned, stack,
                   needsNewline, isTTY, out, log, errAt, stack0, used>>

\* UpdateMessage(m)
SUpdateMessage(m) ==
    /\ pc = "sp"
    /\ Len(calls) < MaxSpCalls
    /\ comps' = [comps EXCEPT ![Sid].message = m]
    /\ calls' = Append(calls, Call(Sid, "UpdateMessage", m))
    /\ UNCHANGED <<title, tasks, output, running, currentIndex, subtaskOffset,
                   pc, mode, i, task, err, result, pending, spawned, stack,
                   needsNewline, isTTY, out, log, errAt, stack0, used>>

\* mutant of StopNext: the stopping call does not wait for the loop
StopNextNoWait(c) == "sp_final"

\* Stop / Fail after unlocking: s.stopChan <- true on an unbuffered channel
StopNext(c) == "sp_send"

\* Stop() (m = ""), Complete(m) and Fail(m) up to the send on stopChan:
\* Complete and Fail first store a non-empty message, then all three return
\* at once unless the spinner is running
SStopping(op, m) ==
    /\ pc = "sp"
    /\ Len(calls) < MaxSpCalls
    /\ LET c1 == IF op = "Stop" THEN comps[Sid] ELSE SetMessage(comps[Sid], m)
       IN  IF c1.running
           THEN /\ comps' = [comps EXCEPT ![Sid] =
                       SpinnerStopLocked(c1, IF op = "Fail" THEN "failed"
                                                            ELSE "completed")]
                /\ pc' = StopNext(c1)
           ELSE /\ comps' = [comps EXCEPT ![Sid] = c1]
                /\ pc' = pc
    /\ calls' = Append(calls, Call(Sid, op, m))
    /\ UNCHANGED <<title, tasks, output, running, currentIndex, subtaskOffset,
                   mode, i, task, err, result, pending, spawned, stack,
                   needsNewline, isTTY, out, log, errAt, stack0, used>>

\* animate receives from stopChan and returns; the stopping call goes on
SHandshake ==
    /\ pc = "sp_send"
    /\ comps[Sid].loops > 0
    /\ comps' = [comps EXCEPT ![Sid].loops = @ - 1]
    /\ pc' = "sp_final"
    /\ UNCHANGED <<title, tasks, output, running, currentIndex, subtaskOffset,
                   mode, i, task, err, result, pending, spawned, stack,
                   needsNewline, isTTY, out, calls, log, errAt, stack0, used>>

\* the stopping call after the send: renderFinal, trailing newline, return
SFinal ==
    /\ pc = "sp_final"
    /\ LET S == SpinnerRenderFinal(comps[Sid], Sink, stack, isTTY, Sid)
       IN  out' = S.out /\ needsNewline' = S.nn
    /\ pc' = "sp"
    /\ UNCHANGED <<title, tasks, output, running, currentIndex, subtaskOffset,
                   mode, i, task, err, result, comps, pending, spawned, stack,
                   isTTY, calls, log, errAt, stack0, used>>

NextSpinner ==
    \/ SStart
    \/ SUpdateMessage("u")
    \/ SStopping("Stop", "")
    \/ SStopping("Complete", "x")
    \/ \E m \in Msgs : SStopping("Fail", m)
    \/ SHandshake
    \/ SFinal
    \/ Tick(Sid)

SpecSpinner == InitSpinner /\ [][NextSpinner]_vars

\* what a step appends to the output
NewOut == SubSeq(out', Len(out) + 1, Len(out'))

Wrote(text) == \E k \in 1..Len(NewOut) : NewOut[k].text = text

FramesInOrder ==
    /\ Len(out') >= Len(out)
    /\ SubSeq(out', 1, Len(out)) = out
    /\ Wrote("run") => (comps[Sid].loops > 0 /\ ~Wrote("final"))
    /\ Wrote("final")
          => /\ pc = "sp_final"
             /\ comps[Sid].loops = 0
             /\ Cardinality({k \in 1..Len(NewOut) : NewOut[k].text = "final"}) = 1
    /\ (pc = "sp_final" /\ pc' = "sp" /\ ~comps[Sid].suppressRender)
          => Wrote("final")

\* C12: in every Start ... Stop/Complete/Fail period of a Spinner, under every
\* interleaving of the animation loop with the stopping call, running frames
\* are written only while the period's animation loop is alive, the final
\* frame is written exactly once, by the stopping call, only after the loop
\* has received the stop signal and returned, so no running frame follows it.
C12_FrameOrder == [][FramesInOrder]_vars

\* a period in which the loop ticked once more after the stopping call had
\* taken the lock: one running frame, then the final frame
C12_Witness ==
    /\ pc = "sp"
    /\ ~comps[Sid].suppressRender
    /\ used.frames = 2
    /\ Len(out) >= 2
    /\ Cardinality({k \in 1..Len(out) : out[k].text = "run"}) = 1
    /\ \E a, b \in 1..Len(out) :
          a < b /\ out[a].text = "run" /\ out[b].text = "final"

\* a lifecycle call that does not match the spinner's state
Mismatch ==
    \/ Called("Start") /\ comps[Sid].running
    \/ (Called("Stop") \/ Called("Complete") \/ Called("Fail"))
          /\ ~comps[Sid].running

\* C13: a Spinner lifecycle call that does not match the current state (Start
\* while running; Stop, Complete(message) or Fail(message) while not running)
\* changes nothing of the spinner's state, starts or stops no animation loop
\* and writes nothing.
C13_NoOp ==
    [][Mismatch => (comps' = comps /\ out' = out /\ pc' = pc)]_vars

\* C14: with the suppression flag set nothing at all is written to the
\* spinner's output during the whole lifecycle.
C14_Silent ==
    comps[Sid].suppressRender => \A k \in 1..Len(out) : out[k].by # Sid

\* -------------------------------------------------------------------- re-run
\* Run called again on the same group after a Run that executed tasks has
\* returned.  log, calls and errAt are ghosts of one run and start afresh.
MaxRuns == 2

Rerun ==
    /\ pc = "done"
    /\ mode = "Run"
    /\ result.kind # "config"
    /\ used.runs + 1 < MaxRuns
    /\ used' = [used EXCEPT !.runs = @ + 1]
    /\ ValidationPasses(validate(title, tasks))
    /\ running' = TRUE
    /\ pc' = "loop"
    /\ i' = 0
    /\ result' = NoResult
    /\ err' = NilErr
    /\ log' = <<>>
    /\ calls' = <<>>
    /\ errAt' = NilErr
    /\ stack0' = stack
    /\ UNCHANGED <<title, tasks, output, currentIndex, subtaskOffset, mode, task,
                   comps, pending, spawned, stack, needsNewline, isTTY, out>>

NextRerun ==
    \/ \E in \in RunInputs : AddTask(in)
    \/ Run
    \/ Rerun
    \/ executeTasksSequentially
    \/ executeTask
    \/ \E in \in GoInputs : AddSubtask(in)
    \/ \E e \in {NilErr} \cup {TaskErr(task.id, m) : m \in ErrMsgs} : FuncReturn(e)
    \/ StopHandshake
    \/ FinalRender

SpecRerun == Init /\ [][NextRerun]_vars

\* the list after a step: the list before it, or that list with one task
\* inserted behind the task being executed
ListKept ==
    \/ tasks' = tasks
    \/ \E k \in (currentIndex + 1)..Len(tasks) :
          /\ Len(tasks') = Len(tasks) + 1
          /\ SubSeq(tasks', 1, k) = SubSeq(tasks, 1, k)
          /\ SubSeq(tasks', k + 2, Len(tasks')) = SubSeq(tasks, k + 1, Len(tasks))
          /\ \A j \in 1..Len(tasks) : tasks[j].id # tasks'[k + 1].id
    \/ (pc = "setup" /\ Len(tasks') = Len(tasks) + 1
          /\ SubSeq(tasks', 1, Len(tasks)) = tasks)

RunsInListOrder ==
    /\ (pc' = "done" /\ result'.kind # "config")
          => (currentIndex' = 0 /\ subtaskOffset' = 0 /\ ~running')
    /\ (pc = "done" /\ pc' = "loop") => (i' = 0 /\ log' = <<>>)
    /\ ListKept
    /\ Len(log') <= Len(tasks')
    /\ \A k \in 1..Len(log') : log'[k].id = tasks'[k].id
    /\ (pc' = "done" /\ result' = NilErr) => Len(log') = Len(tasks')

\* C15: when Run returns after executing tasks, with nil or with a task
\* error, currentIndex and subtaskOffset are 0 and running is false; a following
\* Run on the same group starts at the first task and starts the tasks of the
\* list in list order, all of them when it succeeds; and no step of either run
\* changes the list other than by inserting one new task behind the task
\* being executed.
C15_Rerun == [][RunsInListOrder]_vars

\* a second Run that succeeded, in which the first task added a subtask again:
\* the new subtask went ahead of the one the first Run had added
C15_Witness ==
    /\ used.runs = 1
    /\ pc = "done"
    /\ result = NilErr
    /\ Len(log) = Len(tasks)
    /\ \E k \in 1..(Len(tasks) - 2) :
          /\ tasks[k].id = <<1>>
          /\ tasks[k + 1].id = <<1, 2>>
          /\ tasks[k + 2].id = <<1, 1>>

\* ---------------------------------------------------------------- progress
\* One Progress driven directly by one goroutine (no SpinGroup): Start,
\* Update, Increment, SetTotal, Complete and Fail in any order.  The Progress
\* is comps[Pid], built by New(title, total, WithRenderer(r), WithOutput(w));
\* calls starts with that New and its total, and keeps Update's current and
\* SetTotal's total as the call's argument.
MaxPCalls == 3

Pid == <<1>>

Totals == {0, 2}

NewTotals == {0, 50}

Currents == {1, 25}

Renderers == {"bar", "dots", "minimal"}

InitProgress ==
    /\ title = "T"
    /\ tasks = <<>>
    /\ output \in {"buf", "frame"}
    /\ stack = IF output = "frame" THEN <<1>> ELSE <<>>
    /\ out = IF output = "frame" THEN <<OpenEntry>> ELSE <<>>
    /\ \E t \in Totals, r \in Renderers :
          /\ comps = (Pid :> [FrameAwareSetOutput(NewComponent("progress"), Plain(output))
                                 EXCEPT !.total = t, !.renderer = r])
          /\ calls = <<Call(Pid, "New", t)>>
    /\ isTTY = FALSE
    /\ running = FALSE
    /\ currentIndex = 0
    /\ subtaskOffset = 0
    /\ pc = "prog"
    /\ mode = "none"
    /\ i = 0
    /\ task = NoTask
    /\ err = NilErr
    /\ result = NoResult
    /\ pending = {}
    /\ spawned = 0
    /\ needsNewline = FALSE
    /\ log = <<>>
    /\ errAt = NilErr
    /\ stack0 = <<>>
    /\ used = [frames |-> 0, runs |-> 0]

\* Start()
PStart ==
    /\ pc = "prog"
    /\ Len(calls) <= MaxPCalls
    /\ LET r == ProgressRender(comps[Pid], Sink, stack, isTTY, Pid)
       IN  /\ comps' = [comps EXCEPT ![Pid] = r.c]
           /\ out' = r.S.out
           /\ needsNewline' = r.S.nn
    /\ calls' = Append(calls, Call(Pid, "Start", ""))
    /\ UNCHANGED <<title, tasks, output, running, currentIndex, subtaskOffset,
                   pc, mode, i, task, err, result, pending, spawned, stack,
                   isTTY, log, errAt, stack0, used>>

\* Update(cur, m)
PUpdate(cur, m) ==
    /\ pc = "prog"
    /\ Len(calls) <= MaxPCalls
    /\ LET r == ProgressUpdate(comps[Pid], Sink, stack, isTTY, Pid, cur, m)
       IN  /\ comps' = [comps EXCEPT ![Pid] = r.c]
           /\ out' = r.S.out
           /\ needsNewline' = r.S.nn
    /\ calls' = Append(calls, Call(Pid, "Update", cur))
    /\ UNCHANGED <<title, tasks, output, running, currentIndex, subtaskOffset,
                   pc, mode, i, task, err, result, pending, spawned, stack,
                   isTTY, log, errAt, stack0, used>>

\* Increment(m)
PIncrement(m) ==
    /\ pc = "prog"
    /\ Len(calls) <= MaxPCalls
    /\ LET r == ProgressIncrement(comps[Pid], Sink, stack, isTTY, Pid, m)
       IN  /\ comps' = [comps EXCEPT ![Pid] = r.c]
           /\ out' = r.S.out
           /\ needsNewline' = r.S.nn
    /\ calls' = Append(calls, Call(Pid, "Increment", m))
    /\ UNCHANGED <<title, tasks, output, running, currentIndex, subtaskOffset,
                   pc, mode, i, task, err, result, pending, spawned, stack,
                   isTTY, log, errAt, stack0, used>>

\* Complete(m)
PComplete(m) ==
    /\ pc = "prog"
    /\ Len(calls) <= MaxPCalls
    /\ LET r == ProgressComplete(comps[Pid], Sink, stack, isTTY, Pid, m)
       IN  /\ comps' = [comps EXCEPT ![Pid] = r.c]
           /\ out' = r.S.out
           /\ needsNewline' = r.S.nn
    /\ calls' = Append(calls, Call(Pid, "Complete", m))
    /\ UNCHANGED <<title, tasks, output, running, currentIndex, subtaskOffset,
                   pc, mode, i, task, err, result, pending, spawned, stack,
                   isTTY, log, errAt, stack0, used>>

\* Fail(m)
PFail(m) ==
    /\ pc = "prog"
    /\ Len(calls) <= MaxPCalls
    /\ LET r == ProgressFail(comps[Pid], Sink, stack, isTTY, Pid, m)
       IN  /\ comps' = [comps EXCEPT ![Pid] = r.c]
           /\ out' = r.S.out
           /\ needsNewline' = r.S.nn
    /\ calls' = Append(calls, Call(Pid, "Fail", m))
    /\ UNCHANGED <<title, tasks, output, running, currentIndex, subtaskOffset,
                   pc, mode, i, task, err, result, pending, spawned, stack,
                   isTTY, log, errAt, stack0, used>>

\* SetTotal(n): the total becomes n
SetTotal(c, n) == [c EXCEPT !.total = n]

PSetTotal(n) ==
    /\ pc = "prog"
    /\ Len(calls) <= MaxPCalls
    /\ comps' = [comps EXCEPT ![Pid] = SetTotal(@, n)]
    /\ calls' = Append(calls, Call(Pid, "SetTotal", n))
    /\ UNCHANGED <<title, tasks, output, running, currentIndex, subtaskOffset,
                   pc, mode, i, task, err, result, pending, spawned, stack,
                   needsNewline, isTTY, out, log, errAt, stack0, used>>

NextProgress ==
    \/ PStart
    \/ \E cur \in Currents, m \in Msgs : PUpdate(cur, m)
    \/ \E m \in Msgs : PIncrement(m)
    \/ \E m \in Msgs : PComplete(m)
    \/ \E m \in Msgs : PFail(m)
    \/ \E n \in NewTotals : PSetTotal(n)

SpecProgress == InitProgress /\ [][NextProgress]_vars

P == comps[Pid]

IgnoredWhenLatched ==
    (P.completed /\ (Called("Update") \/ Called("Increment")))
        => /\ P'.current = P.current
           /\ Percentage(P') = Percentage(P)
           /\ P'.message = P.message
           /\ out' = out

\* C16: once a Progress is latched by Complete or Fail, every later Update or
\* Increment call is ignored: Current(), Percentage() and the message stay
\* unchanged and nothing is written to the output.
C16_Latched == [][IgnoredWhenLatched]_vars

\* Update(25, m) right after Complete on a Progress of total 2: current is
\* still the total
C16_Witness ==
    /\ Len(calls) = 3
    /\ calls[2].op = "Complete"
    /\ calls[3].op = "Update"
    /\ calls[3].arg = 25
    /\ P.completed
    /\ P.total = 2
    /\ P.current = 2

TerminalStep ==
    /\ (Called("Complete") /\ ~P.completed)
          => (P'.completed /\ ~P'.failed /\ P'.current = P'.total)
    /\ (Called("Fail") /\ ~P.completed)
          => (P'.failed /\ P'.completed /\ P'.current = P.current)
    /\ (P.completed /\ (Called("Complete") \/ Called("Fail")))
          => (P' = P /\ out' = out)
    /\ P.completed => (P'.completed /\ P'.failed = P.failed)

\* C17: the first of Complete or Fail called on a Progress fixes its terminal
\* state for good: after Complete it is completed, not failed, and current
\* equals total, and a later Fail changes nothing and writes nothing; after
\* Fail it is failed and completed with current unchanged, and a later
\* Complete changes nothing and writes nothing; failed implies completed in
\* every reachable state.
C17_Terminal == [](P.failed => P.completed) /\ [][TerminalStep]_vars

\* Fail right after Complete
C17_Witness ==
    /\ Len(calls) = 3
    /\ calls[2].op = "Complete"
    /\ calls[3].op = "Fail"
    /\ P.completed /\ ~P.failed /\ P.current = P.total

\* the other order: Update(1, m), Fail, Complete on a Progress of total 2
C17_WitnessFailFirst ==
    /\ Len(calls) = 4
    /\ calls[2].op = "Update" /\ calls[2].arg = 1
    /\ calls[3].op = "Fail"
    /\ calls[4].op = "Complete"
    /\ P.completed /\ P.failed /\ P.current = 1 /\ P.total = 2

\* a step in which the Progress rendered: Start, or an Update, Increment,
\* Complete or Fail that was not ignored
Rendered == Wrote("run")

ZeroTotalRender ==
    (P.total = 0 /\ Rendered)
        => /\ P'.shown # <<>>
           /\ P'.shown[1].pct = 0
           /\ P'.shown[1].divisor # 0

\* C18: while a Progress has total 0, Percentage() is 0, and every render
\* triggered by Start, Update, Increment, Complete or Fail, with the bar, the
\* dots and the minimal renderer, shows 0% and performs no division by total.
C18_ZeroTotal == [](P.total = 0 => Percentage(P) = 0) /\ [][ZeroTotalRender]_vars

\* what does hold of a total of 0: Percentage() is 0 and the bar and dots
\* renderers print it
ZeroTotalChar ==
    (P.total = 0 /\ Rendered /\ P.renderer # "minimal") => P'.shown[1].pct = 0

ZeroTotalPercentage == [](P.total = 0 => Percentage(P) = 0) /\ [][ZeroTotalChar]_vars

\* New(title, 0), SetTotal(50), Update(25, m) and nothing else
TotalSetLater ==
    /\ Len(calls) = 3
    /\ calls[1].arg = 0
    /\ calls[2].op = "SetTotal"
    /\ calls[2].arg = 50
    /\ calls[3].op = "Update"
    /\ calls[3].arg = 25

\* C19: a Progress created with total 0 can have its total changed afterwards
\* with SetTotal(n): after New(title, 0), SetTotal(50) and Update(25, ""),
\* Total() is 50 and Percentage() is 50.0 (500 tenths of a percent).
C19_SetTotal == TotalSetLater => (P.total = 50 /\ Percentage(P) = 500)

C19_Witness ==
    /\ TotalSetLater
    /\ P.message = ""
    /\ P.current = 25
    /\ P.total = 50
    /\ Percentage(P) = 500

\* --------------------------------------------------- components in a frame
\* the components whose output is an IndentedWriter that wraps the frame
WrapsFrame(id) == comps[id].w.wrapped /\ comps[id].w.base = "frame"

\* C23: a component whose output is an IndentedWriter that wraps a Frame (a
\* subtask of depth >= 1 under RunInFrame) is detected as being inside a
\* frame: InFrame() is true, and it writes neither a carriage-return /
\* clear-line sequence nor a lone trailing newline; what it writes carries
\* its indentation.
C23_WrappedFrame ==
    \A id \in DOMAIN comps :
        WrapsFrame(id)
            => /\ comps[id].inFrame
               /\ \A k \in 1..Len(out) :
                     out[k].by = id
                        => /\ out[k].pre # "cr"
                           /\ ~(out[k].text = "" /\ out[k].nl)
                           /\ out[k].indent = comps[id].w.indent

\* C29: inside a frame on a TTY, an in-place replacement (cursor up, clear
\* line) only ever replaces a line that the same component wrote: the line
\* above the cursor, the last one written, is the component's own.
C29_OwnLine ==
    \A k \in 1..Len(out) :
        out[k].pre = "up" => (k > 1 /\ out[k - 1].by = out[k].by)

\* ---------------------------------------------------------- frame content
\* Frames used directly (no SpinGroup): one goroutine opens frames 2, 3, ...,
\* closes the top one and writes to any frame it has opened, on the stack or
\* closed, with Write, ReplaceLine, ReplaceLineN and ReplaceBlock.  All frames
\* share one output; needsNewline is kept per frame.
MaxFrameCalls == 4

FrameIds == 2..(MaxFrames + 1)

LineNos == {0, 2}

Blocks == {[lineCount |-> 0, lines |-> <<"a">>],
           [lineCount |-> 2, lines |-> <<>>],
           [lineCount |-> 1, lines |-> <<"a">>],
           [lineCount |-> 1, lines |-> <<"a", "b">>],
           [lineCount |-> 2, lines |-> <<"a">>]}

InitFrameOps ==
    /\ title = "T"
    /\ tasks = <<>>
    /\ output = "buf"
    /\ stack = <<>>
    /\ out = <<>>
    /\ comps = <<>>
    /\ isTTY \in BOOLEAN
    /\ running = FALSE
    /\ currentIndex = 0
    /\ subtaskOffset = 0
    /\ pc = "setup"
    /\ mode = "none"
    /\ i = 0
    /\ task = NoTask
    /\ err = NilErr
    /\ result = NoResult
    /\ pending = {}
    /\ spawned = 0
    /\ needsNewline = [f \in FrameIds |-> FALSE]
    /\ calls = <<>>
    /\ log = <<>>
    /\ errAt = NilErr
    /\ stack0 = <<>>
    /\ used = [frames |-> 0, runs |-> 0]

FrameSink(f) == [out |-> out, nn |-> needsNewline[f]]

\* f.Print (nl = FALSE) / f.Println (nl = TRUE) of one line
FWrite(f, nl) ==
    /\ f \in Opened
    /\ Len(calls) < MaxFrameCalls
    /\ LET S == FrameWrite(FrameSink(f), stack, f, NoPath, Content("", "a", nl), 0)
       IN  /\ out' = S.out
           /\ needsNewline' = [needsNewline EXCEPT ![f] = S.nn]
    /\ calls' = Append(calls, Call(NoPath, "Write", f))
    /\ UNCHANGED <<title, tasks, output, running, currentIndex, subtaskOffset,
                   pc, mode, i, task, err, result, comps, pending, spawned,
                   stack, isTTY, log, errAt, stack0, used>>

\* f.ReplaceLine
FReplaceLine(f) ==
    /\ f \in Opened
    /\ Len(calls) < MaxFrameCalls
    /\ LET S == FrameReplaceLine(FrameSink(f), stack, isTTY, f, NoPath, "a", 0)
       IN  /\ out' = S.out
           /\ needsNewline' = [needsNewline EXCEPT ![f] = S.nn]
    /\ calls' = Append(calls, Call(NoPath, "ReplaceLine", f))
    /\ UNCHANGED <<title, tasks, output, running, currentIndex, subtaskOffset,
                   pc, mode, i, task, err, result, comps, pending, spawned,
                   stack, isTTY, log, errAt, stack0, used>>

\* f.ReplaceLineN(n, ...)
FReplaceLineN(f, n) ==
    /\ f \in Opened
    /\ Len(calls) < MaxFrameCalls
    /\ LET S == FrameReplaceLineN(FrameSink(f), stack, isTTY, f, NoPath, n, "a", 0)
       IN  /\ out' = S.out
           /\ needsNewline' = [needsNewline EXCEPT ![f] = S.nn]
    /\ calls' = Append(calls, Call(NoPath, "ReplaceLineN", f))
    /\ UNCHANGED <<title, tasks, output, running, currentIndex, subtaskOffset,
                   pc, mode, i, task, err, result, comps, pending, spawned,
                   stack, isTTY, log, errAt, stack0, used>>

\* f.ReplaceBlock(b.lineCount, b.lines)
FReplaceBlock(f, b) ==
    /\ f \in Opened
    /\ Len(calls) < MaxFrameCalls
    /\ LET S == FrameReplaceBlock(FrameSink(f), stack, f, NoPath, b.lineCount, b.lines)
       IN  /\ out' = S.out
           /\ needsNewline' = [needsNewline EXCEPT ![f] = S.nn]
    /\ calls' = Append(calls, Call(NoPath, "ReplaceBlock", f))
    /\ UNCHANGED <<title, tasks, output, running, currentIndex, subtaskOffset,
                   pc, mode, i, task, err, result, comps, pending, spawned,
                   stack, isTTY, log, errAt, stack0, used>>

NextFrameOps ==
    \/ Open
    \/ \E f \in Opened : FrameCloses(stack, f) /\ Close(f)
    \/ \E f \in Opened, nl \in BOOLEAN : FWrite(f, nl)
    \/ \E f \in Opened : FReplaceLine(f)
    \/ \E f \in Opened, n \in LineNos : FReplaceLineN(f, n)
    \/ \E f \in Opened, b \in Blocks : FReplaceBlock(f, b)

SpecFrameOps == InitFrameOps /\ [][NextFrameOps]_vars

ContentOps == {"Write", "ReplaceLine", "ReplaceLineN", "ReplaceBlock"}

\* a step in which frame LastCall.arg wrote or replaced content
ContentCall == Len(calls') = Len(calls) + 1 /\ LastCall.op \in ContentOps

\* the lines the step formatted (control sequences written alone left out)
NewLines == SelectSeq(NewOut, LAMBDA e : e.framed)

LivePosition ==
    ContentCall
        => \A k \in 1..Len(NewLines) :
              /\ \A p \in 1..Len(stack) :
                    stack[p] = LastCall.arg => NewLines[k].fdepth = p
              /\ LastCall.arg \in Range(stack) => NewLines[k].fdepth >= 1
              /\ LastCall.arg \notin Range(stack) => NewLines[k].fdepth = 0

\* C21: whenever an open frame formats a content line (Write, ReplaceLine,
\* ReplaceLineN, ReplaceBlock), the depth handed to the renderer equals that
\* frame's 1-based position in the global stack at that moment: an outer
\* frame written to while an inner frame is open, or after it closed, renders
\* at its own position, and a frame on the stack never renders at depth 0.
C21_LiveDepth == [][LivePosition]_vars

\* the outer frame 2 is written to after the inner frame 3 was opened and
\* closed again, and renders at depth 1
C21_Witness ==
    /\ Len(calls) = 4
    /\ calls[2].op = "Open" /\ calls[2].arg = 3
    /\ calls[3].op = "Close" /\ calls[3].arg = 3
    /\ calls[4].op \in ContentOps /\ calls[4].arg = 2
    /\ stack = <<2>>
    /\ out[Len(out)].framed
    /\ out[Len(out)].text = "a"
    /\ out[Len(out)].fdepth = 1

\* the outer frame written to while the inner frame is open
C21_WitnessInnerOpen ==
    /\ Len(calls) = 3
    /\ calls[3].op \in ContentOps /\ calls[3].arg = 2
    /\ stack = <<2, 3>>
    /\ out[Len(out)].text = "a"
    /\ out[Len(out)].fdepth = 1

InPlaceOps == {"ReplaceLine", "ReplaceLineN", "ReplaceBlock"}

TTYOnly ==
    (Len(calls') = Len(calls) + 1 /\ LastCall.op \in InPlaceOps)
        => /\ \A k \in 1..Len(NewOut) : NewOut[k].pre # "" => isTTY
           /\ ~isTTY => \A k \in 1..Len(NewOut) :
                            NewOut[k].text # "" /\ NewOut[k].nl

\* C22: each of ReplaceLine, ReplaceLineN and ReplaceBlock emits cursor-up
\* and clear-line control sequences only when the terminal is a TTY; when it
\* is not, the operation writes no control sequence and appends the new
\* content as new line(s).
C22_TTYOnly == [][TTYOnly]_vars

\* what ReplaceLine and ReplaceLineN do keep to
TTYOnlyLine ==
    (Len(calls') = Len(calls) + 1 /\ LastCall.op \in {"ReplaceLine", "ReplaceLineN"})
        => /\ \A k \in 1..Len(NewOut) : NewOut[k].pre # "" <=> isTTY
           /\ ~isTTY => (Len(NewOut) = 1 /\ NewOut[1].text # "" /\ NewOut[1].nl)

ReplaceLineTTYOnly == [][TTYOnlyLine]_vars

\* ------------------------------------------------------- concurrent Close
\* Several goroutines open frames and close them concurrently.  Frame.Close
\* takes the stack's lock twice: stack.current() reads the top under the read
\* lock, and later stack.pop() removes whatever is on top under the write
\* lock.  pending holds the Close calls that are between the two.
MaxClosers == 2

Closers == 1..MaxClosers

InClose(g) == \E p \in pending : p.g = g

\* Close up to and including `if stack.current() != f { return }`
CloseCheck(g, f) ==
    /\ pc = "setup"
    /\ f \in Opened
    /\ ~InClose(g)
    /\ Count("Close") <= MaxFrames
    /\ pending' = IF FrameCloses(stack, f) THEN pending \cup {[g |-> g, f |-> f]}
                  ELSE pending
    /\ calls' = Append(calls, Call(<<g>>, "Close", f))
    /\ UNCHANGED <<title, tasks, output, running, currentIndex, subtaskOffset,
                   pc, mode, i, task, err, result, comps, spawned, stack,
                   needsNewline, isTTY, out, log, errAt, stack0, used>>

\* frameStack.pop: the top frame, if any, leaves the stack
StackPop(stk) == IF Len(stk) = 0 THEN stk ELSE Pop(stk)

\* the rest of Close: stack.pop(), then the closing border is written
ClosePop(p) ==
    /\ p \in pending
    /\ stack' = StackPop(stack)
    /\ out' = Append(out, CloseEntry)
    /\ pending' = pending \ {p}
    /\ calls' = Append(calls, Call(<<p.g>>, "Pop", p.f))
    /\ UNCHANGED <<title, tasks, output, running, currentIndex, subtaskOffset,
                   pc, mode, i, task, err, result, comps, spawned,
                   needsNewline, isTTY, log, errAt, stack0, used>>

NextClose ==
    \/ Open
    \/ \E g \in Closers, f \in Opened : CloseCheck(g, f)
    \/ \E p \in pending : ClosePop(p)

SpecClose == Init /\ [][NextClose]_vars

ClosesOwnFrame ==
    /\ Called("Pop")
          => \/ stack' = stack
             \/ (Top(stack) = LastCall.arg /\ stack' = Pop(stack))
    /\ \A f \in Range(stack) \ Range(stack') : Called("Pop") /\ LastCall.arg = f

\* C28: under every interleaving of concurrent Open and Close calls, a call
\* Close(f) removes no frame other than f: a frame opened by another
\* goroutine between the top-of-stack check and the pop is never popped in
\* f's place, and two concurrent Close(f) calls pop at most one frame.
C28_AtomicClose == [][ClosesOwnFrame]_vars

\* ------------------------------------------------ goroutines that outlive
\* A goroutine that a task function started may call AddSubtask or AddTask at
\* any later moment: while its task still executes, while a later task
\* executes, between the loop's last test of len(sg.tasks) and the return of
\* Run, or after Run has returned.  The loop reads len(sg.tasks) without the
\* mutex, so the test and the deferred finalizeExecution are separate steps.

\* the g of a subtask added while another task than its caller's was current
Stray == MaxGo + 1

\* the task sg.currentIndex points at
Current == IF currentIndex < Len(tasks) THEN tasks[currentIndex + 1].id ELSE NoPath

\* executeTasksSequentially: i < len(sg.tasks) holds, prepareTaskForExecution(i)
LoopNext ==
    /\ i < Len(tasks)
    /\ executeTasksSequentially

\* mutant of LoopExit: the loop bound is the number of tasks AddTask added,
\* subtasks spliced in during the run are not counted
LoopExitSnapshot ==
    /\ pc = "loop"
    /\ i >= Cardinality(Roots(tasks))
    /\ pc' = "exit"
    /\ UNCHANGED <<title, tasks, output, running, currentIndex, subtaskOffset,
                   mode, i, task, err, result, comps, pending, spawned, stack,
                   needsNewline, isTTY, out, calls, log, errAt, stack0, used>>

\* executeTasksSequentially: i < len(sg.tasks) fails, the loop returns nil
LoopExit ==
    /\ pc = "loop"
    /\ i >= Len(tasks)
    /\ pc' = "exit"
    /\ UNCHANGED <<title, tasks, output, running, currentIndex, subtaskOffset,
                   mode, i, task, err, result, comps, pending, spawned, stack,
                   needsNewline, isTTY, out, calls, log, errAt, stack0, used>>

\* Run: the deferred finalizeExecution, then the return of nil
RunReturn ==
    /\ pc = "exit"
    /\ finalizeExecution
    /\ Leave(mode, stack, Sink, NilErr)
    /\ UNCHANGED <<title, tasks, mode, i, task, err, comps, pending, spawned,
                   isTTY, calls, log, errAt, stack0, used>>

\* a goroutine started by the function of task `owner` calls sg.AddSubtask
StrayAddSubtask(owner, in) ==
    /\ owner \in Range(LogIds)
    /\ Room
    /\ DoAddSubtask(owner, in, IF running /\ Current = owner THEN 1 ELSE Stray)
    /\ UNCHANGED <<title, output, running, currentIndex, pc, mode, i, task, err,
                   result, pending, spawned, stack, needsNewline, isTTY, out,
                   calls, log, errAt, stack0, used>>

\* a goroutine calls sg.AddTask while Run is in progress
GoAddTask(in) ==
    /\ running
    /\ Cardinality(Roots(tasks)) < MaxRoots
    /\ Work < MaxWork
    /\ tasks' = AppendTask(tasks, in)
    /\ comps' = Register(comps, <<Cardinality(Roots(tasks)) + 1>>, in)
    /\ UNCHANGED <<title, output, running, currentIndex, subtaskOffset, pc, mode,
                   i, task, err, result, pending, spawned, stack, needsNewline,
                   isTTY, out, calls, log, errAt, stack0, used>>

NextStray ==
    \/ \E in \in GoInputs : AddTask(in)
    \/ Run
    \/ LoopNext
    \/ LoopExit
    \/ RunReturn
    \/ executeTask
    \/ \E in \in GoInputs : AddSubtask(in)
    \/ \E owner \in Range(LogIds) : \E in \in GoInputs : StrayAddSubtask(owner, in)
    \/ \E in \in GoInputs : GoAddTask(in)
    \/ \E e \in {NilErr} \cup {TaskErr(task.id, m) : m \in ErrMsgs} : FuncReturn(e)
    \/ StopHandshake
    \/ FinalRender

SpecStray == Init /\ [][NextStray]_vars

\* an AddTask / AddSubtask step leaves the entries up to sg.currentIndex alone
Undisturbed ==
    (running /\ Len(tasks') > Len(tasks))
       => \A k \in 1..Min(currentIndex + 1, Len(tasks)) : tasks'[k] = tasks[k]

\* no task function is started twice
NoneTwice == \A j \in 1..Len(log) : \A k \in 1..Len(log) : log[j].id = log[k].id => j = k

\* the loop has executed exactly the entries in front of its index, in order
LoopUpToDate == (running /\ pc \in {"loop", "exit"}) => LogIds = SubSeq(TaskIds, 1, i)

\* the loop finds i < len(sg.tasks) false
LastTest == pc = "loop" /\ pc' = "exit"

\* Run returns nil
ReturnsNil == pc # "done" /\ pc' = "done" /\ result' = NilErr

\* C24 (as stated): during Run no AddSubtask or AddTask call, by the task
\* function or by any goroutine at any moment, changes an entry at an index
\* <= currentIndex; no task is executed twice; and when Run returns nil every
\* task in the list has been executed.
C24_NeverSkipped ==
    /\ []NoneTwice
    /\ [][Undisturbed /\ (ReturnsNil => Range(TaskIds') \subseteq Range(LogIds'))]_vars

\* C24 (amended): during Run no AddSubtask or AddTask call, by the task
\* function or by any goroutine at any moment, changes an entry at an index
\* <= currentIndex; no task is executed twice; the loop executes the entries
\* in list order without stepping over one, so every task that is in the list
\* when the loop tests i < len(sg.tasks) for the last time has been executed.
\* A task added after that test, before Run returns, is listed and not executed.
C24_Undisturbed ==
    /\ [](NoneTwice /\ LoopUpToDate)
    /\ [][Undisturbed /\ (LastTest => Range(TaskIds) \subseteq Range(LogIds))]_vars

\* a goroutine of the first task added a subtask while the second task was
\* executing, and Run executed every task of the list and returned nil
C24_Witness ==
    /\ Succeeded
    /\ LogIds = TaskIds
    /\ \E k \in 1..Len(tasks) :
          /\ k > 2
          /\ tasks[k].g = Stray
          /\ tasks[k].id = <<1, 1>>
          /\ tasks[k - 1].id = <<2>>

\* a goroutine added a task between the loop's last test and the return of Run
C24_WitnessLate ==
    /\ Succeeded
    /\ Len(tasks) > Len(log)
    /\ NoneTwice

\* the task whose function (or goroutine) added the subtask with path id
OwnerOf(id) == SubSeq(id, 1, Len(id) - 1)

\* entry j was added by a goroutine that had outlived its task, or descends
\* from such an entry
Foreign(j) ==
    \E k \in 1..Len(tasks) : tasks[k].g = Stray /\ IsPrefix(tasks[k].id, tasks[j].id)

\* entry k has the depth of its caller's task plus 1 and lies behind that task,
\* with nothing in between but entries that satisfy Between
Attached(k, Between(_)) ==
    LET p  == OwnerOf(tasks[k].id)
        ip == IndexOf(TaskIds, p)
    IN  /\ ip > 0
        /\ ip < k
        /\ tasks[k].depth = tasks[ip].depth + 1
        /\ \A j \in (ip + 1)..(k - 1) : IsPrefix(p, tasks[j].id) \/ Between(j)

Nothing(j) == FALSE

\* a step on which a goroutine that has outlived its task adds a subtask: the
\* new entry lies behind the task sg.currentIndex points at and has that
\* task's depth plus 1
StrayAttach ==
    \A k \in 1..Len(tasks') :
        (Len(tasks') = Len(tasks) + 1 /\ tasks'[k].g = Stray /\ tasks'[k] \notin Range(tasks))
           => /\ k > currentIndex + 1
              /\ tasks'[k].depth = tasks[currentIndex + 1].depth + 1
              /\ (~running => currentIndex = 0)

\* C26 (as stated): a subtask is always attached to the task whose function or
\* goroutine called AddSubtask: it has that task's depth plus 1 and lies in
\* that task's block of subtasks, also when the goroutine has outlived its
\* task and a later task is executing or no Run is in progress.
C26_AlwaysAttached ==
    \A k \in 1..Len(tasks) : Len(tasks[k].id) > 1 => Attached(k, Nothing)

\* C26 (amended): a subtask is attached to the task sg.currentIndex points at
\* when AddSubtask is called.  Called by the executing task's function, or by
\* a goroutine of it while that task is still current, the subtask has the
\* caller's task's depth plus 1 and lies behind that task with only that
\* task's subtasks (and entries of goroutines that outlived their task) in
\* between.  Called by a goroutine that has outlived its task, the subtask
\* gets the depth of the task that is current then plus 1 and lies behind
\* that task; with no Run in progress that is the first task of the list.
C26_AttachedToCurrent ==
    /\ [](\A k \in 1..Len(tasks) :
             (Len(tasks[k].id) > 1 /\ tasks[k].g # Stray) => Attached(k, Foreign))
    /\ [][StrayAttach]_vars

\* task <<1>> added <<1,1>> itself; while <<1,1>> was executing a goroutine of
\* <<1>> added <<1,2>>, which got depth 2
C26_Witness ==
    \E k \in 2..Len(tasks) :
        /\ tasks[k].id = <<1, 2>>
        /\ tasks[k].g = Stray
        /\ tasks[k].depth = 2
        /\ tasks[k - 1].id = <<1, 1>>
        /\ tasks[k - 1].g = 0
        /\ Attached(k - 1, Foreign)

\* a goroutine of <<1>> called AddSubtask after Run had returned
C26_WitnessNoRun ==
    /\ pc = "done"
    /\ \E k \in 1..Len(tasks) : tasks[k].g = Stray /\ tasks[k].id \notin Range(LogIds)
    /\ subtaskOffset > 0

\* ------------------------------------------------ tasks added after validate
\* Run calls validate once, before the loop.  What AddSubtask and AddTask are
\* handed during the run is stored as it is and reaches executeTask unchecked.

\* executeTask with a component to call
executeTaskOn ==
    /\ task.component
    /\ executeTask

\* executeTask: task.component.SetOutput on a nil component panics; the
\* deferred finalizeExecution runs while the panic unwinds Run
executeTaskNil ==
    /\ pc = "exec"
    /\ ~task.component
    /\ pc' = "panic"
    /\ calls' = Append(calls, Call(task.id, "SetOutput", ""))
    /\ finalizeExecution
    /\ UNCHANGED <<title, tasks, output, mode, i, task, err, result, comps,
                   pending, spawned, stack, needsNewline, isTTY, out, log, errAt,
                   stack0, used>>

\* executeTask: task.taskFunc(task.component, sg) on a nil function panics
\* after SetOutput and Start
taskFuncNil ==
    /\ pc = "func"
    /\ ~task.taskFunc
    /\ pc' = "panic"
    /\ finalizeExecution
    /\ UNCHANGED <<title, tasks, output, mode, i, task, err, result, comps,
                   pending, spawned, stack, needsNewline, isTTY, out, calls, log,
                   errAt, stack0, used>>

NextUnvalidated ==
    \/ \E in \in SetupInputs : AddTask(in)
    \/ Run
    \/ executeTasksSequentially
    \/ executeTaskOn
    \/ executeTaskNil
    \/ taskFuncNil
    \/ \E in \in SetupInputs : task.taskFunc /\ AddSubtask(in)
    \/ \E in \in SetupInputs : task.taskFunc /\ pc = "func" /\ GoAddTask(in)
    \/ \E e \in {NilErr} \cup {TaskErr(task.id, m) : m \in ErrMsgs} :
          task.taskFunc /\ FuncReturn(e)
    \/ StopHandshake
    \/ FinalRender

SpecUnvalidated == Init /\ [][NextUnvalidated]_vars

TaskOf(id) == tasks[IndexOf(TaskIds, id)]

\* C25: every task that Run executes has a non-empty name, a component and a
\* function, subtasks and tasks added during the run included: Run never
\* panics, never calls a method on a nil component and never calls a nil
\* task function.
C25_ValidWhenExecuted ==
    /\ pc # "panic"
    /\ \A j \in 1..Len(calls) :
          LET t == TaskOf(calls[j].task)
          IN  /\ t.name # ""
              /\ t.component
              /\ calls[j].op = "Func" => t.taskFunc

\* ------------------------------------------------------------- termination
\* The goroutine that runs Run is scheduled, every task function returns, and
\* a running animation loop takes the stop signal it is sent.  Nothing forces
\* a goroutine to call AddSubtask or AddTask.
SpecStrayFair ==
    /\ SpecStray
    /\ WF_vars(LoopNext)
    /\ WF_vars(LoopExit)
    /\ WF_vars(RunReturn)
    /\ WF_vars(executeTask)
    /\ WF_vars(\E e \in {NilErr} \cup {TaskErr(task.id, m) : m \in ErrMsgs} : FuncReturn(e))
    /\ WF_vars(StopHandshake)
    /\ WF_vars(FinalRender)

\* Run, once called, returns
RunTerminates == (pc # "setup") ~> (pc = "done")

\* how often the function of the task with path id has been started
Executions(lg, id) == Cardinality({j \in 1..Len(lg) : lg[j].id = id})

\* C27 (as stated): Run terminates, and when it returns nil every task that is
\* in the list at that moment has been executed exactly once.
C27_AllExecuted ==
    /\ RunTerminates
    /\ [][ReturnsNil => \A k \in 1..Len(tasks') : Executions(log', tasks'[k].id) = 1]_vars

\* C27 (amended): Run terminates when every task function returns and finitely
\* many tasks are added; every task that is in the list when the loop tests
\* i < len(sg.tasks) for the last time has been executed exactly once, in list
\* order, and when Run returns nil these are the first i entries of the list;
\* entries behind them were added after that test and have not been executed.
C27_Terminates ==
    /\ RunTerminates
    /\ [][/\ LastTest => (LogIds = TaskIds /\ i = Len(tasks))
          /\ ReturnsNil => (/\ LogIds = SubSeq(TaskIds', 1, i)
                            /\ \A k \in 1..Len(tasks') :
                                  Executions(log', tasks'[k].id) = (IF k <= i THEN 1 ELSE 0))]_vars

\* Run returned nil after the loop bound had grown twice: task <<1>> added
\* <<1,1>>, which added <<1,1,1>>, and all of them were executed
C27_Witness ==
    /\ Succeeded
    /\ i = Len(tasks)
    /\ LogIds = TaskIds
    /\ \E k \in 1..Len(tasks) : tasks[k].id = <<1, 1, 1>> /\ tasks[k].g = 0

\* ------------------------------------------- one Spinner, several goroutines
\* Start, Stop, Complete("") and Fail("") called on one Spinner by several
\* goroutines.  Each call is cut where it releases s.mutex: Start between the
\* unlock and `go s.animate()`, Stop / Fail between the unlock, the send on
\* the unbuffered stopChan and renderFinal.  pc maps each caller to where it
\* is in its call; used counts the calls, the Stop / Fail calls that found the
\* spinner running and the signals received.
MaxCallers == 3

MaxCCalls == 4

MaxTicks == 1

Callers == 1..MaxCallers

At(where) == {g \in Callers : pc[g] = where}

InitConcurrent ==
    /\ title = "T"
    /\ tasks = <<>>
    /\ output \in {"buf", "frame"}
    /\ stack = IF output = "frame" THEN <<1>> ELSE <<>>
    /\ out = IF output = "frame" THEN <<OpenEntry>> ELSE <<>>
    /\ comps = (Sid :> FrameAwareSetOutput(NewComponent("spinner"), Plain(output)))
    /\ isTTY = FALSE
    /\ running = FALSE
    /\ currentIndex = 0
    /\ subtaskOffset = 0
    /\ pc = [g \in Callers |-> "idle"]
    /\ mode = "none"
    /\ i = 0
    /\ task = NoTask
    /\ err = NilErr
    /\ result = NoResult
    /\ pending = {}
    /\ spawned = 0
    /\ needsNewline = FALSE
    /\ calls = <<>>
    /\ log = <<>>
    /\ errAt = NilErr
    /\ stack0 = <<>>
    /\ used = [frames |-> 0, runs |-> 0, calls |-> 0, stops |-> 0, recvs |-> 0]

\* mutant of StartLaunches: Start does not test s.running
StartLaunchesAlways(c) == TRUE

\* Start: `if s.running { unlock; return }`
StartLaunches(c) == ~c.running

\* Start under s.mutex: return at once, or set running and startTime
CStartLock(g) ==
    /\ pc[g] = "idle"
    /\ used.calls < MaxCCalls
    /\ used' = [used EXCEPT !.calls = @ + 1]
    /\ IF StartLaunches(comps[Sid])
       THEN /\ comps' = [comps EXCEPT ![Sid].running = TRUE,
                                      ![Sid].startTime = used.calls + 1]
            /\ pc' = [pc EXCEPT ![g] = "launch"]
       ELSE UNCHANGED <<comps, pc>>
    /\ UNCHANGED <<title, tasks, output, running, currentIndex, subtaskOffset,
                   mode, i, task, err, result, pending, spawned, stack,
                   needsNewline, isTTY, out, calls, log, errAt, stack0>>

\* Start after the unlock: go s.animate()
CLaunch(g) ==
    /\ pc[g] = "launch"
    /\ comps' = [comps EXCEPT ![Sid].loops = @ + 1]
    /\ pc' = [pc EXCEPT ![g] = "idle"]
    /\ UNCHANGED <<title, tasks, output, running, currentIndex, subtaskOffset,
                   mode, i, task, err, result, pending, spawned, stack,
                   needsNewline, isTTY, out, calls, log, errAt, stack0, used>>

\* Stop, Complete("") or Fail("") under s.mutex: return at once, or clear
\* running and set the state
CStopLock(g, op) ==
    /\ pc[g] = "idle"
    /\ used.calls < MaxCCalls
    /\ IF comps[Sid].running
       THEN /\ comps' = [comps EXCEPT ![Sid] =
                   SpinnerStopLocked(@, IF op = "Fail" THEN "failed" ELSE "completed")]
            /\ pc' = [pc EXCEPT ![g] = "send"]
            /\ used' = [used EXCEPT !.calls = @ + 1, !.stops = @ + 1]
       ELSE /\ used' = [used EXCEPT !.calls = @ + 1]
            /\ UNCHANGED <<comps, pc>>
    /\ UNCHANGED <<title, tasks, output, running, currentIndex, subtaskOffset,
                   mode, i, task, err, result, pending, spawned, stack,
                   needsNewline, isTTY, out, calls, log, errAt, stack0>>

\* s.stopChan <- true meets `case <-s.stopChan: return` of one live loop
CHandshake(g) ==
    /\ pc[g] = "send"
    /\ comps[Sid].loops > 0
    /\ comps' = [comps EXCEPT ![Sid].loops = @ - 1]
    /\ pc' = [pc EXCEPT ![g] = "final"]
    /\ used' = [used EXCEPT !.recvs = @ + 1]
    /\ UNCHANGED <<title, tasks, output, running, currentIndex, subtaskOffset,
                   mode, i, task, err, result, pending, spawned, stack,
                   needsNewline, isTTY, out, calls, log, errAt, stack0>>

\* the stopping call after the send: renderFinal, trailing newline, return
CFinal(g) ==
    /\ pc[g] = "final"
    /\ LET S == SpinnerRenderFinal(comps[Sid], Sink, stack, isTTY, Sid)
       IN  out' = S.out /\ needsNewline' = S.nn
    /\ pc' = [pc EXCEPT ![g] = "idle"]
    /\ UNCHANGED <<title, tasks, output, running, currentIndex, subtaskOffset,
                   mode, i, task, err, result, comps, pending, spawned, stack,
                   isTTY, calls, log, errAt, stack0, used>>

\* animate: the ticker fires in a live loop
CTick ==
    /\ used.frames < MaxTicks
    /\ Tick(Sid)

NextConcurrent ==
    \/ \E g \in Callers : CStartLock(g)
    \/ \E g \in Callers : CLaunch(g)
    \/ \E g \in Callers : \E op \in {"Stop", "Complete", "Fail"} : CStopLock(g, op)
    \/ \E g \in Callers : CHandshake(g)
    \/ \E g \in Callers : CFinal(g)
    \/ CTick

SpecConcurrent == InitConcurrent /\ [][NextConcurrent]_vars

\* a goroutine, once created, runs; a loop in its select takes a signal that
\* a sender offers; a caller that holds no lock goes on
SpecConcurrentFair ==
    /\ SpecConcurrent
    /\ WF_vars(\E g \in Callers : CLaunch(g))
    /\ WF_vars(\E g \in Callers : CHandshake(g))
    /\ WF_vars(\E g \in Callers : CFinal(g))

\* final frames written so far
Finals == Cardinality({k \in 1..Len(out) : out[k].text = "final"})

Loops == comps[Sid].loops

\* loops that live or are about to be launched, less the signals on their way
Balance ==
    Loops + Cardinality(At("launch")) - Cardinality(At("send"))
       = (IF comps[Sid].running THEN 1 ELSE 0)

\* every Stop / Fail that found the spinner running has sent one signal or is
\* about to, and every signal sent was received by one loop
Signals == used.recvs + Cardinality(At("send")) = used.stops

\* one final frame for every running period that has ended, less those whose
\* stopping call has yet to render
FinalFrames ==
    Finals + Cardinality(At("send")) + Cardinality(At("final")) = used.stops

Quiet == \A g \in Callers : pc[g] = "idle"

\* C30: under every interleaving of Start, Stop, Complete and Fail calls made
\* on one Spinner by several goroutines, every call returns, every Stop / Fail
\* that finds the spinner running sends exactly one stop signal, which exactly
\* one animation loop receives, one final frame is written per running
\* period, and whenever no call is in progress there is one live animation
\* loop if the spinner is running and none otherwise.
C30_NoLeak ==
    /\ [](Balance /\ Signals /\ FinalFrames)
    /\ [](Quiet => /\ Loops = (IF comps[Sid].running THEN 1 ELSE 0)
                   /\ Finals = used.stops)
    /\ \A g \in Callers : (pc[g] # "idle") ~> (pc[g] = "idle")

\* two loops are alive at once: a Stop has cleared running and is about to
\* send while another goroutine's Start has launched a second loop for the
\* spinner that is running again
C30_Witness ==
    /\ Loops = 2
    /\ comps[Sid].running
    /\ At("send") # {}
    /\ At("launch") = {}

\* a Stop is blocked in its send while no loop is alive yet: the Start that
\* set running has not launched animate
C30_WitnessBlocked ==
    /\ Loops = 0
    /\ At("send") # {}
    /\ At("launch") # {}
====
